---- MODULE Spec2Model ----
(***************************************************************************)
(* Model of the GitHub data-collection layer of YourResume                 *)
(* (src/services/githubService.ts): the repository scoring and filtering   *)
(* engine scoreAndSortRepos and the content fetcher fetchFileContent.      *)
(*                                                                         *)
(* Strings are tuples of one-character strings, so that split, trim and    *)
(* toLowerCase are computed and not assumed.  An optional value            *)
(* (enrichedData?, readme?, packageJson?, an unparsable date) is a tuple   *)
(* of length 0 (absent) or 1 (present).  Time is counted in whole days.    *)
(***************************************************************************)
EXTENDS Integers, Sequences, FiniteSets, TLC

VARIABLES
    repos,      \* the list handed to scoreAndSortRepos
    username,   \* the username handed to scoreAndSortRepos
    now,        \* Date.now(), in days
    out,        \* value returned by the latest call of scoreAndSortRepos
    outNow,     \* clock reading of the latest call
    prevOut,    \* value returned by the call before it
    prevNow,    \* clock reading of the call before it
    calls,      \* number of calls made so far
    fpc,        \* fetchFileContent: position in the async function
    freq,       \* fetchFileContent: arguments and the upstream's answer
    ftimer,     \* fetchFileContent: state of the setTimeout abort timer
    fresult,    \* fetchFileContent: how the returned promise settled
    parse,      \* manifest parsers: the fetched texts and the lists built
    lst,        \* fetchAllRepos: position, page, accumulated list, requests
    cc,         \* fetchCommitCount: position, page, contributors, requests
    enr,        \* enrichRepoData: per-repository position and requests
    app,        \* handleStart: position, AppState, guard and calls made
    wave        \* one enrichment callback: its sub-fetches and its joins

vars == <<repos, username, now, out, outNow, prevOut, prevNow, calls,
          fpc, freq, ftimer, fresult, parse, lst, cc, enr, app, wave>>

scoreVars == <<repos, username, now, out, outNow, prevOut, prevNow, calls>>
fetchVars == <<fpc, freq, ftimer, fresult>>
restVars  == <<parse, lst, cc, enr, app, wave>>

----------------------------------------------------------------------------
(* Bounds of the model *)

MaxRepos == 3
MaxTicks == 2
MaxCalls == 2
MaxContentLen == 4
MaxDeclaredSize == 3
MaxLines == 3
MaxReadmeWords == 2
MaxBatch == 2
MaxRuns == 2

----------------------------------------------------------------------------
(* String primitives *)

\* String.prototype.toLowerCase on one character of the model's alphabet
LowerChar(c) ==
    CASE c = "A" -> "a"
      [] c = "L" -> "l"
      [] c = "O" -> "o"
      [] c = "G" -> "g"
      [] c = "C" -> "c"
      [] c = "J" -> "j"
      [] c = "M" -> "m"
      [] c = "N" -> "n"
      [] c = "P" -> "p"
      [] c = "R" -> "r"
      [] c = "S" -> "s"
      [] OTHER -> c

ToLowerCase(s) == [i \in 1..Len(s) |-> LowerChar(s[i])]

IsSpace(c) == c = " "

RECURSIVE TrimStart(_)
TrimStart(s) ==
    IF s = <<>> THEN <<>>
    ELSE IF IsSpace(Head(s)) THEN TrimStart(Tail(s)) ELSE s

RECURSIVE TrimEnd(_)
TrimEnd(s) ==
    IF s = <<>> THEN <<>>
    ELSE IF IsSpace(s[Len(s)]) THEN TrimEnd(SubSeq(s, 1, Len(s) - 1)) ELSE s

\* String.prototype.trim
Trim(s) == TrimEnd(TrimStart(s))

\* String.prototype.split('/'): the pieces between the separators
RECURSIVE SplitFrom(_, _)
SplitFrom(s, cur) ==
    IF s = <<>> THEN <<cur>>
    ELSE IF Head(s) = "/" THEN <<cur>> \o SplitFrom(Tail(s), <<>>)
    ELSE SplitFrom(Tail(s), Append(cur, Head(s)))

Split(s) == SplitFrom(s, <<>>)

----------------------------------------------------------------------------
(* scoreAndSortRepos *)

SENTINEL == -9999

\* const isOwnRepo = owner.toLowerCase().trim() === usernameLower
IsOwner(full_name, usernameLower) ==
    LET parts == Split(full_name)
    IN  Len(parts) >= 2 /\ Trim(ToLowerCase(parts[1])) = usernameLower

\* daysSinceUpdate, or Infinity (modelled as <<>>) for an unparsable date
DaysSinceUpdate(updated_at, t) ==
    IF updated_at = <<>> THEN <<>> ELSE <<t - updated_at[1]>>

DaysLess(d, k) == d # <<>> /\ d[1] < k

\* Variant of the fallback scoring without the fork penalty
FallbackScoreNoForkPenalty(repo, isOwnRepo, t) ==
    LET stars == repo.stargazers_count
        forks == repo.forks_count
        d     == DaysSinceUpdate(repo.updated_at, t)
        s1    == IF repo.private # TRUE /\ stars > 10 THEN 30 ELSE 0
        s2    == IF forks > 5 THEN 20 ELSE 0
        s3    == IF DaysLess(d, 90) THEN 10 ELSE 0
        s4    == IF isOwnRepo THEN 20 ELSE 0
        score == s1 + s2 + s3 + s4
    IN  IF score > 0 THEN score ELSE 0

\* Variant of the fallback scoring without the ownership baseline
FallbackScoreNoBaseline(repo, isOwnRepo, t) ==
    LET stars == repo.stargazers_count
        forks == repo.forks_count
        d     == DaysSinceUpdate(repo.updated_at, t)
        s1    == IF repo.private # TRUE /\ stars > 10 THEN 30 ELSE 0
        s2    == IF forks > 5 THEN 20 ELSE 0
        s3    == IF DaysLess(d, 90) THEN 10 ELSE 0
        s5    == IF repo.fork = TRUE THEN -200 ELSE 0
        score == s1 + s2 + s3 + s5
    IN  IF score > 0 THEN score ELSE 0

\* Fallback scoring of a repository without enrichment record
FallbackScore(repo, isOwnRepo, t) ==
    LET stars == repo.stargazers_count
        forks == repo.forks_count
        d     == DaysSinceUpdate(repo.updated_at, t)
        s1    == IF repo.private # TRUE /\ stars > 10 THEN 30 ELSE 0
        s2    == IF forks > 5 THEN 20 ELSE 0
        s3    == IF DaysLess(d, 90) THEN 10 ELSE 0
        s4    == IF isOwnRepo THEN 20 ELSE 0
        s5    == IF repo.fork = TRUE THEN -200 ELSE 0
        score == s1 + s2 + s3 + s4 + s5
    IN  IF score > 0 THEN score ELSE 0

\* Variant of the ratio without the branch for a total of 0 commits
ContributionRatioNoZeroTotal(userCommits, totalCommits) ==
    IF totalCommits > 0 /\ userCommits >= 0
    THEN IF userCommits < totalCommits
         THEN <<userCommits, totalCommits>> ELSE <<1, 1>>
    ELSE <<0, 1>>

\* contributionRatio as a fraction <<numerator, denominator>>
ContributionRatio(userCommits, totalCommits) ==
    IF totalCommits > 0 /\ userCommits >= 0
    THEN IF userCommits < totalCommits
         THEN <<userCommits, totalCommits>> ELSE <<1, 1>>
    ELSE IF totalCommits = 0 /\ userCommits > 0 THEN <<1, 1>>
    ELSE <<0, 1>>

\* r < n/d.  Both 10/100 and the literal 0.1 round to the same double, and
\* 0.25 is exact, so on commit counts the double comparison is the exact one.
RatioLess(r, n, d) == r[1] * d < n * r[2]

\* Variant of the gate that only penalises a non-owned repository without
\* attributed commits instead of returning the sentinel
GatingPenaltyNoZeroGate(isOwnRepo, fork, userCommits, totalCommits) ==
    LET ratio == ContributionRatio(userCommits, totalCommits)
    IN  IF ~isOwnRepo
        THEN IF userCommits < 3 THEN -300
             ELSE IF userCommits < 10 \/ RatioLess(ratio, 1, 10) THEN -200
             ELSE IF userCommits < 20 \/ RatioLess(ratio, 1, 4) THEN -100
             ELSE 0
        ELSE IF fork
        THEN IF userCommits = 0 THEN SENTINEL
             ELSE IF userCommits < 10 THEN -250
             ELSE IF userCommits < 30 THEN -150
             ELSE 0
        ELSE 0

\* Variant of the gate whose 10% test is ratio <= 0.1 instead of ratio < 0.1
GatingPenaltyLE(isOwnRepo, fork, userCommits, totalCommits) ==
    LET ratio == ContributionRatio(userCommits, totalCommits)
    IN  IF ~isOwnRepo
        THEN IF userCommits = 0 THEN SENTINEL
             ELSE IF userCommits < 3 THEN -300
             ELSE IF userCommits < 10 \/ ~RatioLess(<<1, 10>>, ratio[1], ratio[2])
                  THEN -200
             ELSE IF userCommits < 20 \/ RatioLess(ratio, 1, 4) THEN -100
             ELSE 0
        ELSE IF fork
        THEN IF userCommits = 0 THEN SENTINEL
             ELSE IF userCommits < 10 THEN -250
             ELSE IF userCommits < 30 THEN -150
             ELSE 0
        ELSE 0

\* The contribution gate: the delta it applies, or SENTINEL when the map
\* callback returns -9999 at once.
GatingPenalty(isOwnRepo, fork, userCommits, totalCommits) ==
    LET ratio == ContributionRatio(userCommits, totalCommits)
    IN  IF ~isOwnRepo
        THEN IF userCommits = 0 THEN SENTINEL
             ELSE IF userCommits < 3 THEN -300
             ELSE IF userCommits < 10 \/ RatioLess(ratio, 1, 10) THEN -200
             ELSE IF userCommits < 20 \/ RatioLess(ratio, 1, 4) THEN -100
             ELSE 0
        ELSE IF fork
        THEN IF userCommits = 0 THEN SENTINEL
             ELSE IF userCommits < 10 THEN -250
             ELSE IF userCommits < 30 THEN -150
             ELSE 0
        ELSE 0

CommitBonus(relevantCommits) ==
    IF relevantCommits > 500 THEN 100
    ELSE IF relevantCommits > 200 THEN 80
    ELSE IF relevantCommits > 100 THEN 60
    ELSE IF relevantCommits > 50 THEN 40
    ELSE IF relevantCommits > 20 THEN 20
    ELSE IF relevantCommits > 5 THEN 10
    ELSE 0

\* codeKB = codeBytes / 1024 compared with k, without the division
CodeSizeBonus(codeBytes) ==
    IF codeBytes > 1000 * 1024 THEN 50
    ELSE IF codeBytes > 500 * 1024 THEN 40
    ELSE IF codeBytes > 200 * 1024 THEN 30
    ELSE IF codeBytes > 100 * 1024 THEN 20
    ELSE IF codeBytes > 50 * 1024 THEN 10
    ELSE 0

LanguageBonus(langCount) ==
    IF langCount >= 5 THEN 30
    ELSE IF langCount >= 3 THEN 20
    ELSE IF langCount >= 2 THEN 10
    ELSE 0

ReadmeLength(data) == IF data.readme = <<>> THEN 0 ELSE data.readme[1].length

ReadmeBonus(readmeLength) ==
    IF readmeLength > 5000 THEN 40
    ELSE IF readmeLength > 2000 THEN 30
    ELSE IF readmeLength > 1000 THEN 20
    ELSE IF readmeLength > 500 THEN 10
    ELSE 0

ComplexityBonus(data) ==
    IF data.readme = <<>> THEN 0
    ELSE IF data.readme[1].complexity = "complex" THEN 50
    ELSE IF data.readme[1].complexity = "moderate" THEN 25
    ELSE 0

\* s.includes(kw) on the script names of the model
Includes(s, kw) ==
    \/ s = kw
    \/ s = "pretest" /\ kw = "test"
    \/ s = "lint:test" /\ kw \in {"lint", "test"}

QualityBonus(data) ==
    LET scripts == IF data.packageJson = <<>> THEN {}
                   ELSE data.packageJson[1].scripts
        has(kw) == \E s \in scripts : Includes(s, kw)
        flag(f) == data.readme # <<>> /\ data.readme[1][f] = TRUE
    IN  (IF has("test") THEN 20 ELSE 0)
      + (IF has("build") THEN 15 ELSE 0)
      + (IF has("lint") THEN 10 ELSE 0)
      + (IF flag("hasDocs") THEN 15 ELSE 0)
      + (IF flag("hasDemo") THEN 20 ELSE 0)
      + (IF flag("hasMetrics") THEN 15 ELSE 0)

DependencyBonus(depCount) ==
    IF depCount > 30 THEN 30
    ELSE IF depCount > 20 THEN 20
    ELSE IF depCount > 10 THEN 10
    ELSE 0

\* Variant of the recency bonus whose three-month test is off by one day
RecencyBonusOffByOne(d) ==
    IF DaysLess(d, 30) THEN 30
    ELSE IF DaysLess(d, 89) THEN 20
    ELSE IF DaysLess(d, 180) THEN 10
    ELSE 0

RecencyBonus(d) ==
    IF DaysLess(d, 30) THEN 30
    ELSE IF DaysLess(d, 90) THEN 20
    ELSE IF DaysLess(d, 180) THEN 10
    ELSE 0

\* Variant of the public bonuses that does not test repo.private
PublicBonusAlways(repo) ==
    LET stars == repo.stargazers_count
        forks == repo.forks_count
    IN  (IF stars > 100 THEN 50
         ELSE IF stars > 50 THEN 40
         ELSE IF stars > 20 THEN 30
         ELSE IF stars > 10 THEN 20
         ELSE IF stars > 5 THEN 10
         ELSE 0)
      + (IF forks > 20 THEN 30
         ELSE IF forks > 10 THEN 20
         ELSE IF forks > 5 THEN 10
         ELSE 0)

PublicBonus(repo) ==
    IF repo.private # TRUE
    THEN LET stars == repo.stargazers_count
             forks == repo.forks_count
         IN  (IF stars > 100 THEN 50
              ELSE IF stars > 50 THEN 40
              ELSE IF stars > 20 THEN 30
              ELSE IF stars > 10 THEN 20
              ELSE IF stars > 5 THEN 10
              ELSE 0)
           + (IF forks > 20 THEN 30
              ELSE IF forks > 10 THEN 20
              ELSE IF forks > 5 THEN 10
              ELSE 0)
    ELSE 0

\* Everything the enrichment path adds after the contribution gate:
\* the positive signals, the ownership bonus and the minor penalties
SignalDeltas(repo, data, isOwnRepo, t) ==
    LET relevantCommits == IF isOwnRepo THEN data.commitCount
                           ELSE data.userCommitCount
        readmeLen       == ReadmeLength(data)
    IN    CommitBonus(relevantCommits)
        + CodeSizeBonus(data.totalCodeBytes)
        + LanguageBonus(data.languageCount)
        + ReadmeBonus(readmeLen)
        + ComplexityBonus(data)
        + QualityBonus(data)
        + DependencyBonus(Len(data.detectedTechnologies))
        + RecencyBonus(DaysSinceUpdate(repo.updated_at, t))
        + PublicBonus(repo)
        + (IF isOwnRepo THEN 30 ELSE 0)
        + (IF readmeLen = 0 THEN -20 ELSE 0)
        + (IF isOwnRepo /\ ~repo.fork /\ relevantCommits < 5 THEN -20 ELSE 0)

\* Variant of the enrichment scoring in which the sentinel is a delta like
\* the others instead of the final score
EnrichedScoreSentinelAdded(repo, data, isOwnRepo, t) ==
    LET gate == GatingPenalty(isOwnRepo, repo.fork,
                              data.userCommitCount, data.commitCount)
    IN  gate + SignalDeltas(repo, data, isOwnRepo, t)

\* Variant of the enrichment scoring that clamps the sum at 0
EnrichedScoreClamped(repo, data, isOwnRepo, t) ==
    LET gate == GatingPenalty(isOwnRepo, repo.fork,
                              data.userCommitCount, data.commitCount)
        sum  == gate + SignalDeltas(repo, data, isOwnRepo, t)
    IN  IF gate = SENTINEL THEN SENTINEL
        ELSE IF sum > 0 THEN sum ELSE 0

\* Scoring of a repository that has an enrichment record
EnrichedScore(repo, data, isOwnRepo, t) ==
    LET gate == GatingPenalty(isOwnRepo, repo.fork,
                              data.userCommitCount, data.commitCount)
    IN  IF gate = SENTINEL THEN SENTINEL
        ELSE gate + SignalDeltas(repo, data, isOwnRepo, t)

\* The map callback: the calculatedScore of one repository
CalculatedScore(repo, usernameLower, t) ==
    LET parts == Split(repo.full_name)
    IN  IF Len(parts) < 2 THEN 0
        ELSE LET isOwnRepo == Trim(ToLowerCase(parts[1])) = usernameLower
             IN  IF repo.enrichedData = <<>>
                 THEN FallbackScore(repo, isOwnRepo, t)
                 ELSE EnrichedScore(repo, repo.enrichedData[1], isOwnRepo, t)

\* { ...repo, calculatedScore: s }
WithScore(repo, s) ==
    [f \in DOMAIN repo \cup {"calculatedScore"} |->
        IF f = "calculatedScore" THEN s ELSE repo[f]]

\* Variant of the filter callback that keeps every score >= 0
KeepRepoLoose(repo, usernameLower) ==
    LET score == repo.calculatedScore
    IN  IF score < -1000 THEN FALSE ELSE score >= 0

\* The filter callback
KeepRepo(repo, usernameLower) ==
    LET score == repo.calculatedScore
    IN  IF score < -1000 THEN FALSE
        ELSE score > 0 \/ (score >= 0 /\ IsOwner(repo.full_name, usernameLower))

\* Array.prototype.filter
RECURSIVE Filter(_, _)
Filter(s, usernameLower) ==
    IF s = <<>> THEN <<>>
    ELSE IF KeepRepo(Head(s), usernameLower)
         THEN <<Head(s)>> \o Filter(Tail(s), usernameLower)
         ELSE Filter(Tail(s), usernameLower)

\* Variant of the insertion that also moves in front of an equal score
RECURSIVE InsertUnstable(_, _)
InsertUnstable(sorted, x) ==
    IF sorted = <<>> THEN <<x>>
    ELSE IF x.calculatedScore - Head(sorted).calculatedScore >= 0
         THEN <<x>> \o sorted
         ELSE <<Head(sorted)>> \o InsertUnstable(Tail(sorted), x)

\* Array.prototype.sort with the comparator scoreB - scoreA.  The sort is
\* stable (ECMAScript 2019): an element moves in front of another only when
\* the comparator is positive, i.e. when its score is strictly larger.
RECURSIVE Insert(_, _)
Insert(sorted, x) ==
    IF sorted = <<>> THEN <<x>>
    ELSE IF x.calculatedScore - Head(sorted).calculatedScore > 0
         THEN <<x>> \o sorted
         ELSE <<Head(sorted)>> \o Insert(Tail(sorted), x)

RECURSIVE SortByScore(_)
SortByScore(s) ==
    IF s = <<>> THEN <<>>
    ELSE Insert(SortByScore(SubSeq(s, 1, Len(s) - 1)), s[Len(s)])

scoreAndSortRepos(rs, user, t) ==
    LET usernameLower == ToLowerCase(user)
        mapped == [i \in 1..Len(rs) |->
                      WithScore(rs[i], CalculatedScore(rs[i], usernameLower, t))]
    IN  SortByScore(Filter(mapped, usernameLower))

----------------------------------------------------------------------------
(* base64Decode and fetchFileContent *)

\* Files are byte sequences; a payload is a tuple of characters among two
\* base64 digits ("A" = 0, "Q" = 16), the padding "=", the line feed "\n"
\* and "!", which is not a base64 character.
B64Digit(c) == IF c = "A" THEN 0 ELSE 16

IsB64Char(c) == c \in {"A", "Q"}

RECURSIVE RemoveChar(_, _)
RemoveChar(s, c) ==
    IF s = <<>> THEN <<>>
    ELSE IF Head(s) = c THEN RemoveChar(Tail(s), c)
    ELSE <<Head(s)>> \o RemoveChar(Tail(s), c)

DropLast(s) == SubSeq(s, 1, Len(s) - 1)

\* step 2 of the forgiving-base64 decode: a length that is a multiple of 4
\* loses one or two trailing "="
StripPadding(s) ==
    IF Len(s) > 0 /\ Len(s) % 4 = 0 /\ s[Len(s)] = "="
    THEN IF s[Len(s) - 1] = "=" THEN DropLast(DropLast(s)) ELSE DropLast(s)
    ELSE s

\* the bytes of a tuple of base64 digits
RECURSIVE DecodeGroups(_)
DecodeGroups(s) ==
    IF Len(s) >= 4
    THEN LET v == B64Digit(s[1]) * 262144 + B64Digit(s[2]) * 4096
                  + B64Digit(s[3]) * 64 + B64Digit(s[4])
         IN  <<v \div 65536, (v \div 256) % 256, v % 256>>
             \o DecodeGroups(SubSeq(s, 5, Len(s)))
    ELSE IF Len(s) = 3
    THEN LET v == (B64Digit(s[1]) * 4096 + B64Digit(s[2]) * 64
                   + B64Digit(s[3])) \div 4
         IN  <<v \div 256, v % 256>>
    ELSE IF Len(s) = 2
    THEN <<(B64Digit(s[1]) * 64 + B64Digit(s[2])) \div 16>>
    ELSE <<>>

\* atob: [ok |-> FALSE] stands for the InvalidCharacterError it throws
Atob(str) ==
    LET s == StripPadding(RemoveChar(str, "\n"))
    IN  IF Len(s) % 4 = 1 \/ \E i \in DOMAIN s : ~IsB64Char(s[i])
        THEN [ok |-> FALSE, bytes |-> <<>>]
        ELSE [ok |-> TRUE, bytes |-> DecodeGroups(s)]

\* base64Decode: the catch turns a decoder exception into ''
base64Decode(str) ==
    LET r == Atob(str) IN IF r.ok THEN r.bytes ELSE <<>>

ResultPending == [kind |-> "pending", value |-> <<>>]
ResultNull    == [kind |-> "null", value |-> <<>>]
ResultValue(v) == [kind |-> "value", value |-> v]
ResultReject  == [kind |-> "reject", value |-> <<>>]

\* Variant of the outer catch that lets every error but the abort escape
OuterCatchRethrow(errorName) ==
    IF errorName = "AbortError" THEN ResultNull ELSE ResultReject

\* catch (error) { if (error.name === 'AbortError') warn; return null }
OuterCatch(errorName) == ResultNull

\* data.content is truthy: a non-empty string, or a value that is no string
Truthy(data) == ~data.contentIsString \/ data.content # <<>>

\* Variant of the body handling that cuts an oversized file to the limit
HandleBodyTruncating(data, maxSizeBytes) ==
    IF ~data.isObject THEN OuterCatch("TypeError")
    ELSE IF data.size # 0 /\ data.size > maxSizeBytes THEN ResultNull
    ELSE IF Truthy(data) /\ data.encoding = "base64"
    THEN IF ~data.contentIsString THEN ResultNull
         ELSE LET decoded == base64Decode(RemoveChar(data.content, "\n"))
              IN  IF Len(decoded) > maxSizeBytes
                  THEN ResultValue(SubSeq(decoded, 1, maxSizeBytes))
                  ELSE ResultValue(decoded)
    ELSE ResultNull

\* The code after `const data = await response.json()`
HandleBody(data, maxSizeBytes) ==
    IF ~data.isObject THEN OuterCatch("TypeError")
    ELSE IF data.size # 0 /\ data.size > maxSizeBytes THEN ResultNull
    ELSE IF Truthy(data) /\ data.encoding = "base64"
    THEN IF ~data.contentIsString THEN ResultNull
         ELSE LET decoded == base64Decode(RemoveChar(data.content, "\n"))
              IN  IF Len(decoded) > maxSizeBytes THEN ResultNull
                  ELSE ResultValue(decoded)
    ELSE ResultNull

----------------------------------------------------------------------------
(* Manifest parsers and the lists of an enrichment record *)

\* String.prototype.split(sep)
RECURSIVE SplitByFrom(_, _, _)
SplitByFrom(s, sep, cur) ==
    IF s = <<>> THEN <<cur>>
    ELSE IF Head(s) = sep THEN <<cur>> \o SplitByFrom(Tail(s), sep, <<>>)
    ELSE SplitByFrom(Tail(s), sep, Append(cur, Head(s)))

SplitBy(s, sep) == SplitByFrom(s, sep, <<>>)

\* Array.prototype.slice(0, n)
Take(s, n) == SubSeq(s, 1, IF Len(s) < n THEN Len(s) ELSE n)

\* the longest prefix of s made of characters of the class
RECURSIVE LeadingRun(_, _)
LeadingRun(s, class) ==
    IF s = <<>> \/ Head(s) \notin class THEN <<>>
    ELSE <<Head(s)>> \o LeadingRun(Tail(s), class)

\* [...new Set(list)]: the first occurrence of every element, in order
RECURSIVE DedupeFrom(_, _)
DedupeFrom(s, seen) ==
    IF s = <<>> THEN <<>>
    ELSE IF Head(s) \in seen THEN DedupeFrom(Tail(s), seen)
    ELSE <<Head(s)>> \o DedupeFrom(Tail(s), seen \cup {Head(s)})

Dedupe(s) == DedupeFrom(s, {})

\* the characters of the model's manifests that are in [a-zA-Z0-9_-], and
\* those in [a-zA-Z0-9._/-]
NameChars == {"a", "v"}
PathChars == {"a", "v", "/"}

REQUIREMENTS_MAX_LENGTH == 100000
REQUIREMENTS_MAX_LINES  == 500
GOMOD_MAX_LENGTH        == 100000
DEPS_CAP                == 100
MENTIONS_CAP            == 50

\* parseRequirementsTxt; a line without leading name gives null, here <<>>
parseRequirementsTxt(content) ==
    IF content = <<>> \/ Len(content) > REQUIREMENTS_MAX_LENGTH THEN <<>>
    ELSE LET lines   == Take(SplitBy(content, "\n"), REQUIREMENTS_MAX_LINES)
             trimmed == [i \in DOMAIN lines |-> Trim(lines[i])]
             kept    == SelectSeq(trimmed,
                           LAMBDA l : l # <<>> /\ l[1] # "#" /\ Len(l) < 200)
             pkgs    == [i \in DOMAIN kept |-> LeadingRun(kept[i], NameChars)]
         IN  SelectSeq(pkgs, LAMBDA q : q # <<>> /\ Len(q) < 100)

\* line.match(/^\s*(?:require\s+)?([a-zA-Z0-9._/-]+)\s+v/): the captured
\* path, or <<>> without match.  No line of the model holds the word
\* "require", so the optional group matches nothing.
GoRequireMatch(line) ==
    LET rest  == TrimStart(line)
        path  == LeadingRun(rest, PathChars)
        after == SubSeq(rest, Len(path) + 1, Len(rest))
        tail  == TrimStart(after)
    IN  IF path # <<>> /\ Len(tail) < Len(after) /\ tail # <<>> /\ tail[1] = "v"
        THEN path ELSE <<>>

\* the loop of parseGoMod: the last path segment of every require line
GoModDeps(lines) ==
    LET paths == SelectSeq([i \in DOMAIN lines |-> GoRequireMatch(lines[i])],
                           LAMBDA q : q # <<>>)
        names == [i \in DOMAIN paths |->
                     LET parts == Split(paths[i]) IN parts[Len(parts)]]
    IN  SelectSeq(names, LAMBDA q : q # <<>> /\ Len(q) < 50)

parseGoMod(content) ==
    IF content = <<>> \/ Len(content) > GOMOD_MAX_LENGTH THEN <<>>
    ELSE Take(Dedupe(GoModDeps(SplitBy(content, "\n"))), DEPS_CAP)

\* the words of the model that the technology regex of parseReadme matches
\* (the regex is case-insensitive and "go" is in its vocabulary)
TechVocabulary == {<<"g", "o">>}

\* sanitizedMentions of parseReadme: [...new Set(techMatches)], then
\* toLowerCase, then the length filter and slice(0, 50)
ReadmeMentions(words) ==
    LET techMatches == SelectSeq(words, LAMBDA w : ToLowerCase(w) \in TechVocabulary)
        unique      == Dedupe(techMatches)
        lowered     == [i \in DOMAIN unique |-> ToLowerCase(unique[i])]
    IN  Take(SelectSeq(lowered, LAMBDA m : Len(m) > 1 /\ Len(m) < 50),
             MENTIONS_CAP)

\* The lists of the enrichment record of a repository whose requirements.txt
\* and README were fetched, whose setup.py parsed to setupPyDeps and whose
\* other manifests are absent
EnrichedLists(requirementsTxt, setupPyDeps, readmeWords) ==
    LET pythonDeps == IF requirementsTxt # <<>>
                      THEN parseRequirementsTxt(requirementsTxt) ELSE <<>>
        mentions   == IF readmeWords # <<>>
                      THEN ReadmeMentions(readmeWords) ELSE <<>>
    IN  [pythonDependencies   |-> pythonDeps \o setupPyDeps,
         techMentions         |-> mentions,
         detectedTechnologies |-> Dedupe(pythonDeps \o setupPyDeps \o mentions)]

----------------------------------------------------------------------------
(* fetchAllRepos *)

REPOS_PER_PAGE == 100
MAX_PAGES == 3

\* response.ok
Ok(status) == status >= 200 /\ status <= 299

\* The status of a request whose fetch() rejected (no response at all)
NETWORK_ERROR == 0

\* The last index of s that holds the id of s[i]
LastIndexOfId(s, i) ==
    LET same == {j \in i..Len(s) : s[j].id = s[i].id}
    IN  CHOOSE m \in same : \A j \in same : j <= m

\* Array.from(new Map(repos.map(item => [item.id, item])).values()): a key
\* keeps the place of its first insertion and the value of its last one
DedupeById(s) ==
    LET firsts == SelectSeq([i \in 1..Len(s) |-> i],
                            LAMBDA i : \A j \in 1..(i - 1) : s[j].id # s[i].id)
    IN  [k \in 1..Len(firsts) |-> s[LastIndexOfId(s, firsts[k])]]

\* typeof x === 'number' ? x : 0
NumberOrZero(x) == IF x = <<>> THEN 0 ELSE x[1]

\* isOwnRepo of the relevance filter; full_name has passed the two checks
IsOwnRepo(repo, trimmedUsername) ==
    LET parts == Split(repo.full_name[1])
        ownerLower == Trim(ToLowerCase(parts[1]))
        usernameLower == Trim(ToLowerCase(trimmedUsername))
    IN  \/ ownerLower = usernameLower
        \/ /\ repo.ownerLogin # <<>>
           /\ Trim(ToLowerCase(repo.ownerLogin[1])) = usernameLower

\* Variant of the filter that asks an own fork for both stars and forks
UserRelevantBothThresholds(repo, trimmedUsername) ==
    IF repo.full_name = <<>> \/ repo.full_name[1] = <<>> THEN FALSE
    ELSE IF Len(Split(repo.full_name[1])) < 2 THEN FALSE
    ELSE LET isOwnRepo == IsOwnRepo(repo, trimmedUsername)
             stars == NumberOrZero(repo.stargazers_count)
             forks == NumberOrZero(repo.forks_count)
         IN  IF isOwnRepo /\ ~repo.fork THEN TRUE
             ELSE IF repo.fork /\ ~isOwnRepo THEN FALSE
             ELSE IF repo.fork /\ isOwnRepo /\ (stars < 20 \/ forks < 10)
             THEN FALSE
             ELSE TRUE

\* The callback of uniqueRepos.filter
UserRelevant(repo, trimmedUsername) ==
    IF repo.full_name = <<>> \/ repo.full_name[1] = <<>> THEN FALSE
    ELSE IF Len(Split(repo.full_name[1])) < 2 THEN FALSE
    ELSE LET isOwnRepo == IsOwnRepo(repo, trimmedUsername)
             stars == NumberOrZero(repo.stargazers_count)
             forks == NumberOrZero(repo.forks_count)
         IN  IF isOwnRepo /\ ~repo.fork THEN TRUE
             ELSE IF repo.fork /\ ~isOwnRepo THEN FALSE
             ELSE IF repo.fork /\ isOwnRepo /\ stars < 20 /\ forks < 10
             THEN FALSE
             ELSE TRUE

UserRelevantRepos(s, trimmedUsername) ==
    SelectSeq(s, LAMBDA repo : UserRelevant(repo, trimmedUsername))

\* The code after the while loop
ListFinish(l) ==
    [l EXCEPT !.pc = "returned",
              !.result = UserRelevantRepos(DedupeById(l.repos),
                                           Trim(l.username))]

ListThrow(l) == [l EXCEPT !.pc = "threw"]

\* fetch() of one of the two endpoints for the current page
ListRequest(l, endpoint) ==
    [l EXCEPT !.pc = IF endpoint = "my" THEN "awaitMy" ELSE "awaitPublic",
              !.log = Append(@, [endpoint |-> endpoint, page |-> l.page])]

\* page++ and the loop condition
ListNextPage(l) ==
    LET l2 == [l EXCEPT !.page = @ + 1]
    IN  IF l2.page <= MAX_PAGES THEN ListRequest(l2, "my")
        ELSE ListFinish(l2)

\* A parsed page: stop on a non-array or empty body, append, stop on a short
\* page
ListTakePage(l, body) ==
    IF body.json = "error" THEN ListFinish(l)
    ELSE IF body.json # "array" \/ Len(body.items) = 0 THEN ListFinish(l)
    ELSE LET l2 == [l EXCEPT !.repos = @ \o body.items]
         IN  IF Len(body.items) < REPOS_PER_PAGE THEN ListFinish(l2)
             ELSE ListNextPage(l2)

\* Variant of the loop body that falls back to the public endpoint on every
\* page
ListAfterMyFallbackAnyPage(l, status, body) ==
    IF status = NETWORK_ERROR \/ status = 403 \/ status = 429
    THEN IF Len(l.repos) > 0 THEN ListFinish(l) ELSE ListThrow(l)
    ELSE IF Ok(status) THEN ListTakePage(l, body)
    ELSE ListRequest(l, "public")

\* The loop body after the answer to the /user/repos request
ListAfterMy(l, status, body) ==
    IF status = NETWORK_ERROR \/ status = 403 \/ status = 429
    THEN IF Len(l.repos) > 0 THEN ListFinish(l) ELSE ListThrow(l)
    ELSE IF Ok(status) THEN ListTakePage(l, body)
    ELSE IF l.page = 1 THEN ListRequest(l, "public")
    ELSE ListFinish(l)

\* The loop body after the answer to the /users/{username}/repos request
ListAfterPublic(l, status, body) ==
    IF status = NETWORK_ERROR THEN ListFinish(l)
    ELSE IF Ok(status) THEN ListTakePage(l, body)
    ELSE ListFinish(l)

\* if (!token || !username)
ListArgsRejected(token, user) == token = <<>> \/ user = <<>>

\* A call of fetchAllRepos up to its first await: the argument test, then the
\* request for page 1
ListBegin(token, user) ==
    LET l == [pc |-> "idle", token |-> token, username |-> user, page |-> 1,
              repos |-> <<>>, log |-> <<>>, answers |-> <<>>, result |-> <<>>]
    IN  IF ListArgsRejected(token, user) THEN ListThrow(l)
        ELSE ListRequest(l, "my")

\* What the log keeps of an answer
Answer(status, body) ==
    [status |-> status,
     json   |-> IF Ok(status) THEN body.json ELSE "none",
     count  |-> IF Ok(status) /\ body.json = "array" THEN Len(body.items)
                ELSE 0]

----------------------------------------------------------------------------
(* fetchCommitCount *)

CONTRIBUTORS_PER_PAGE == 100
CONTRIBUTOR_MAX_PAGES == 3

Zero == [total |-> 0, userContributions |-> 0]

\* typeof c?.contributions === 'number' ? c.contributions : 0, summed by reduce
RECURSIVE SumContributions(_, _, _)
SumContributions(s, lo, hi) ==
    IF lo > hi THEN 0
    ELSE IF lo = hi THEN NumberOrZero(s[lo].contributions)
    ELSE LET mid == (lo + hi) \div 2
         IN  SumContributions(s, lo, mid) + SumContributions(s, mid + 1, hi)

\* allContributors.find(c => c?.login?.toLowerCase().trim() === usernameLower)
FindContributor(s, usernameLower) ==
    LET hits == {i \in 1..Len(s) :
                    /\ s[i].login # <<>>
                    /\ Trim(ToLowerCase(s[i].login[1])) = usernameLower}
    IN  IF hits = {} THEN <<>>
        ELSE <<s[CHOOSE i \in hits : \A j \in hits : i <= j]>>

\* contributors.some(c => c.login?.toLowerCase() === username.toLowerCase())
PageHasUser(page, user) ==
    /\ user # <<>>
    /\ user[1] # <<>>
    /\ \E i \in 1..Len(page) :
          /\ page[i].login # <<>>
          /\ ToLowerCase(page[i].login[1]) = ToLowerCase(user[1])

\* Variant of the aggregate whose total leaves out the entries of the user
AggregateOthersOnly(allContributors, user) ==
    IF Len(allContributors) = 0 THEN Zero
    ELSE LET others == SelectSeq(allContributors,
                          LAMBDA c : ~PageHasUser(<<c>>, user))
         IN  [total |-> SumContributions(others, 1, Len(others)),
              userContributions |->
                  IF user # <<>> /\ Len(Trim(user[1])) > 0
                  THEN LET userContributor ==
                               FindContributor(allContributors,
                                               Trim(ToLowerCase(user[1])))
                       IN  IF userContributor = <<>> THEN 0
                           ELSE NumberOrZero(userContributor[1].contributions)
                  ELSE 0]

\* The code after the while loop
Aggregate(allContributors, user) ==
    IF Len(allContributors) = 0 THEN Zero
    ELSE [total |-> SumContributions(allContributors, 1, Len(allContributors)),
          userContributions |->
              IF user # <<>> /\ Len(Trim(user[1])) > 0
              THEN LET userContributor ==
                           FindContributor(allContributors,
                                           Trim(ToLowerCase(user[1])))
                   IN  IF userContributor = <<>> THEN 0
                       ELSE NumberOrZero(userContributor[1].contributions)
              ELSE 0]

CommitFinish(c) ==
    [c EXCEPT !.pc = "done", !.timer = "cleared",
              !.result = Aggregate(c.all, c.username)]

\* The catch block
CommitCatch(c, failure) ==
    [c EXCEPT !.pc = "done", !.result = Zero, !.failure = failure,
              !.failPage = c.page]

CommitRequest(c) ==
    [c EXCEPT !.pc = "awaitResponse", !.log = Append(@, c.page)]

\* Variant of the status test that gives up the pages fetched so far
CommitAfterStatusCollapse(c, status) ==
    IF ~Ok(status)
    THEN [c EXCEPT !.pc = "done", !.timer = "cleared", !.result = Zero,
                   !.failure = "status", !.failPage = c.page]
    ELSE [c EXCEPT !.pc = "awaitJson"]

\* if (!response.ok) { clearTimeout(timeoutId); break; }
CommitAfterStatus(c, status) ==
    IF ~Ok(status)
    THEN CommitFinish([c EXCEPT !.failure = "status", !.failPage = c.page])
    ELSE [c EXCEPT !.pc = "awaitJson"]

\* Variant of the page handling that goes on after a short page
CommitTakePageNoShortStop(c, body) ==
    IF body.json # "array"
    THEN CommitFinish([c EXCEPT !.failure = "shape", !.failPage = c.page])
    ELSE IF Len(body.items) = 0 THEN CommitFinish(c)
    ELSE LET c2 == [c EXCEPT !.all = @ \o body.items, !.page = @ + 1]
         IN  IF c2.page <= CONTRIBUTOR_MAX_PAGES THEN CommitRequest(c2)
             ELSE CommitFinish(c2)

\* The loop body after `await response.json()` resolved
CommitTakePage(c, body) ==
    IF body.json # "array"
    THEN CommitFinish([c EXCEPT !.failure = "shape", !.failPage = c.page])
    ELSE IF Len(body.items) = 0 THEN CommitFinish(c)
    ELSE LET c1 == [c EXCEPT !.all = @ \o body.items]
         IN  IF PageHasUser(body.items, c.username)
                   /\ Len(body.items) < CONTRIBUTORS_PER_PAGE
             THEN CommitFinish(c1)
             ELSE IF Len(body.items) < CONTRIBUTORS_PER_PAGE
             THEN CommitFinish(c1)
             ELSE LET c2 == [c1 EXCEPT !.page = @ + 1]
                  IN  IF c2.page <= CONTRIBUTOR_MAX_PAGES THEN CommitRequest(c2)
                      ELSE CommitFinish(c2)

----------------------------------------------------------------------------
(* enrichRepoData *)

ENRICH_DEFAULT_LIMIT == 10

\* Array.prototype.includes on langKeys, the lower-cased keys of the language
\* breakdown
LangKeys(languages) == {ToLowerCase(l) : l \in languages}

KEY_GO      == <<"g", "o">>
KEY_RUST    == <<"r", "u", "s", "t">>
KEY_JAVA    == <<"j", "a", "v", "a">>
KEY_RUBY    == <<"r", "u", "b", "y">>
KEY_C       == <<"c">>
KEY_CPP     == <<"c", "+", "+">>
KEY_CMAKE   == <<"c", "m", "a", "k", "e">>
KEY_PYTHON  == <<"p", "y", "t", "h", "o", "n">>
KEY_JUPYTER == <<"j", "u", "p", "y", "t", "e", "r", " ", "n", "o", "t", "e", "b", "o", "o", "k">>

\* Variant of the second wave that also looks for notebooks in a Python
\* repository
SecondWaveFilesNotebooksForPython(langKeys) ==
    (IF KEY_GO \in langKeys THEN <<"go.mod">> ELSE <<>>)
    \o (IF KEY_RUST \in langKeys THEN <<"Cargo.toml">> ELSE <<>>)
    \o (IF KEY_JAVA \in langKeys THEN <<"pom.xml", "build.gradle">> ELSE <<>>)
    \o (IF KEY_RUBY \in langKeys THEN <<"Gemfile">> ELSE <<>>)
    \o (IF KEY_C \in langKeys \/ KEY_CPP \in langKeys \/ KEY_CMAKE \in langKeys
        THEN <<"CMakeLists.txt">> ELSE <<>>)
    \o (IF KEY_PYTHON \in langKeys \/ KEY_JUPYTER \in langKeys
        THEN <<"setup.py", "pyproject.toml">> ELSE <<>>)
    \o (IF KEY_PYTHON \in langKeys \/ KEY_JUPYTER \in langKeys
        THEN <<"main.ipynb", "notebook.ipynb">> ELSE <<>>)

\* additionalFetches: the paths of the second wave, in the order of the pushes
SecondWaveFiles(langKeys) ==
    (IF KEY_GO \in langKeys THEN <<"go.mod">> ELSE <<>>)
    \o (IF KEY_RUST \in langKeys THEN <<"Cargo.toml">> ELSE <<>>)
    \o (IF KEY_JAVA \in langKeys THEN <<"pom.xml", "build.gradle">> ELSE <<>>)
    \o (IF KEY_RUBY \in langKeys THEN <<"Gemfile">> ELSE <<>>)
    \o (IF KEY_C \in langKeys \/ KEY_CPP \in langKeys \/ KEY_CMAKE \in langKeys
        THEN <<"CMakeLists.txt">> ELSE <<>>)
    \o (IF KEY_PYTHON \in langKeys \/ KEY_JUPYTER \in langKeys
        THEN <<"setup.py", "pyproject.toml">> ELSE <<>>)
    \o (IF KEY_JUPYTER \in langKeys
        THEN <<"main.ipynb", "notebook.ipynb">> ELSE <<>>)

\* Variant of the slice in which an omitted limit keeps every repository
TopReposNoDefault(rs, limit) ==
    Take(rs, IF limit = <<>> THEN Len(rs) ELSE limit[1])

\* repos.slice(0, limit) with the default of the parameter
TopRepos(rs, limit) ==
    Take(rs, IF limit = <<>> THEN ENRICH_DEFAULT_LIMIT ELSE limit[1])

\* enrichmentPromises has settled everywhere: Promise.all resolves
EnrichJoin(e) ==
    IF e.pc = "running" /\ \A i \in 1..Len(e.items) : e.items[i].pc = "done"
    THEN [e EXCEPT !.pc = "done",
                   !.result = [i \in 1..Len(e.items) |->
                                  [full_name |-> e.items[i].full_name,
                                   enrichedData |-> e.items[i].enrichedData]]]
    ELSE e

\* Variant of the catch block that lets the exception out of the callback, so
\* that Promise.all rejects
EnrichCatchRethrow(e, i) ==
    [e EXCEPT !.pc = "rejected", !.items[i].pc = "done",
              !.items[i].failed = TRUE]

\* The catch block of one repository: { ...repo, enrichedData: undefined }
EnrichCatch(e, i) ==
    [e EXCEPT !.items[i].pc = "done", !.items[i].failed = TRUE,
              !.items[i].enrichedData = <<>>]

\* The callback of topRepos.map up to its first await
EnrichBegin(e, i) ==
    LET repo == e.items[i]
    IN  IF repo.full_name = <<>> THEN EnrichCatch(e, i)
        ELSE IF Len(Split(repo.full_name[1])) < 2
        THEN [e EXCEPT !.items[i].pc = "done"]
        ELSE [e EXCEPT !.items[i].pc = "wave1"]

RECURSIVE EnrichBeginAll(_, _)
EnrichBeginAll(e, i) ==
    IF i > Len(e.items) THEN e ELSE EnrichBeginAll(EnrichBegin(e, i), i + 1)

\* After the first Promise.all: the language keys decide the second wave
EnrichAfterWave1(e, i, languages) ==
    [e EXCEPT !.items[i].pc = "wave2",
              !.items[i].languages = languages,
              !.items[i].requested = SecondWaveFiles(LangKeys(languages))]

\* After the second Promise.all: the record is built
EnrichAfterWave2(e, i, found) ==
    [e EXCEPT !.items[i].pc = "done",
              !.items[i].enrichedData =
                  <<[languages |-> e.items[i].languages,
                     languageCount |-> Cardinality(e.items[i].languages),
                     manifests |-> IF found THEN e.items[i].requested
                                   ELSE <<>>]>>]

----------------------------------------------------------------------------
(* validateToken and handleStart *)

TOKEN_MIN_LENGTH == 10

\* The two tests of validateToken that come before its fetch
TokenRejected(token) ==
    \/ token = <<>> \/ Len(Trim(token)) = 0
    \/ Len(Trim(token)) < TOKEN_MIN_LENGTH

\* catch and finally of handleStart
AppCatch(a) ==
    [a EXCEPT !.pc = "idle", !.state = "ERROR", !.isGenerating = FALSE,
              !.inFlight = @ - 1]

\* handleStart after the guard, up to its first await.  inFlight counts the
\* invocations that have passed the guard and not yet left through finally.
AppBegin(a, token) ==
    LET a1 == [a EXCEPT !.isGenerating = TRUE, !.state = "FETCHING_GITHUB",
                        !.token = token, !.login = <<>>,
                        !.calls = <<"validateToken">>,
                        !.requests = 0, !.listed = <<>>, !.runs = @ + 1,
                        !.inFlight = @ + 1]
    IN  IF TokenRejected(token) THEN AppCatch(a1)
        ELSE [a1 EXCEPT !.pc = "validating", !.requests = 1]

\* Variant of handleStart without the test of isGeneratingRef
handleStartNoGuard(a, token) == AppBegin(a, token)

\* handleStart from its invocation to its first await: an invocation made
\* while isGeneratingRef.current is set returns at once
handleStart(a, token) ==
    IF a.isGenerating THEN [a EXCEPT !.ignored = @ + 1]
    ELSE AppBegin(a, token)

\* Variant of the step after the listing that goes on with an empty list
AppTakeReposNoEmptyTest(a, outcome) ==
    IF outcome.pc = "threw" THEN AppCatch(a)
    ELSE [a EXCEPT !.listed = <<outcome.count>>, !.pc = "enriching",
                   !.calls = Append(@, "enrichRepoData")]

\* handleStart after `await fetchAllRepos(...)` has settled
AppTakeRepos(a, outcome) ==
    IF outcome.pc = "threw" THEN AppCatch(a)
    ELSE IF outcome.count = 0
    THEN AppCatch([a EXCEPT !.listed = <<0>>])
    ELSE [a EXCEPT !.listed = <<outcome.count>>, !.pc = "enriching",
                   !.calls = Append(@, "enrichRepoData")]

----------------------------------------------------------------------------
(* One callback of enrichRepoData: the two Promise.all joins *)

\* The six promises of the first Promise.all
FirstWaveFetches ==
    {"package.json", "requirements.txt", "README.md", "readme.md",
     "commits", "languages"}

\* Variant of the sub-fetches without their catch block: a failure or a
\* timeout rejects the promise
SubFetchSettleRethrow(outcome) ==
    IF outcome = "ok" THEN "value" ELSE "rejected"

\* How fetchFileContent, fetchCommitCount and fetchLanguages settle: their
\* catch blocks turn a failure or a timeout into null, {total: 0,
\* userContributions: 0} or {}
SubFetchSettle(outcome) ==
    IF outcome = "ok" THEN "value" ELSE "absent"

\* Promise.all: rejects as soon as one promise rejects, resolves when every
\* promise has resolved
PromiseAll(statuses) ==
    IF \E f \in DOMAIN statuses : statuses[f] = "rejected" THEN "rejected"
    ELSE IF \E f \in DOMAIN statuses : statuses[f] = "pending" THEN "pending"
    ELSE "resolved"

PendingFetches(statuses) ==
    {f \in DOMAIN statuses : statuses[f] = "pending"}

\* The catch block of the callback
WaveCatch(w) ==
    [w EXCEPT !.pc = "done", !.failed = TRUE, !.enrichedData = <<>>]

\* The parsing and the record, after the second Promise.all
WaveBuildRecord(w) ==
    [w EXCEPT
       !.pc = "done",
       !.pendingAtParse = PendingFetches(w.first) \cup PendingFetches(w.second),
       !.enrichedData =
          <<[packageJson |-> w.first["package.json"] = "value",
             pythonDependencies |-> w.first["requirements.txt"] = "value",
             readme |-> \/ w.first["README.md"] = "value"
                        \/ w.first["readme.md"] = "value",
             commitCount |-> w.first["commits"] = "value",
             languages |-> w.first["languages"] = "value",
             goDeps |-> /\ "go.mod" \in DOMAIN w.second
                        /\ w.second["go.mod"] = "value"]>>]

\* After the first Promise.all: the language keys decide the second one
WaveAfterFirst(w) ==
    LET langKeys == IF w.first["languages"] = "value"
                    THEN w.upstream ELSE {}
        files    == IF "go" \in langKeys THEN {"go.mod"} ELSE {}
        w1       == [w EXCEPT !.pc = "wave2",
                              !.second = [f \in files |-> "pending"],
                              !.pendingAtSecond = PendingFetches(w.first)]
    IN  IF files = {} THEN WaveBuildRecord(w1) ELSE w1

\* The continuation of the callback once a promise it awaits has settled
WaveContinue(w) ==
    IF w.pc = "wave1"
    THEN CASE PromiseAll(w.first) = "rejected" -> WaveCatch(w)
           [] PromiseAll(w.first) = "resolved" -> WaveAfterFirst(w)
           [] OTHER -> w
    ELSE IF w.pc = "wave2"
    THEN CASE PromiseAll(w.second) = "rejected" -> WaveCatch(w)
           [] PromiseAll(w.second) = "resolved" -> WaveBuildRecord(w)
           [] OTHER -> w
    ELSE w

----------------------------------------------------------------------------
(* Inputs *)

Today == 1000

AL     == <<"a", "l">>
AL_UP  == <<"A", "L">>
AL_SP  == <<"a", "l", " ">>

Usernames == {AL, AL_UP, AL_SP}

FN_OWN   == <<"a", "l", "/", "x">>
FN_CASE  == <<"A", "l", "/", "x">>
FN_PAD   == <<" ", "a", "l", "/", "x">>
FN_ORG   == <<"o", "/", "x">>
FN_BAD   == <<"a", "l", "x">>

FullNames == {FN_OWN, FN_CASE, FN_PAD, FN_ORG, FN_BAD}

UpdatedAts == {<<>>, <<Today - 29>>, <<Today - 88>>, <<Today - 400>>}

Stars == {0, 11, 101}
Forks == {0, 6, 21}

UserCommitCounts == {0, 2, 9, 10, 25, 30, 600}
CommitCounts     == {0, 4, 100, 101, 600}

Techs(n) == [i \in 1..n |-> i]

\* The signals of an enrichment record other than the commit counts
BareSignals ==
    [packageJson |-> <<>>, readme |-> <<>>, languageCount |-> 0,
     totalCodeBytes |-> 0, detectedTechnologies |-> <<>>]

MidSignals ==
    [packageJson |-> <<[scripts |-> {"build", "start"}]>>,
     readme |-> <<[length |-> 600, hasDemo |-> FALSE, hasDocs |-> TRUE,
                   hasMetrics |-> FALSE, complexity |-> "moderate"]>>,
     languageCount |-> 2, totalCodeBytes |-> 60 * 1024,
     detectedTechnologies |-> Techs(11)]

RichSignals ==
    [packageJson |-> <<[scripts |-> {"pretest", "build", "lint:test"}]>>,
     readme |-> <<[length |-> 6000, hasDemo |-> TRUE, hasDocs |-> TRUE,
                   hasMetrics |-> TRUE, complexity |-> "complex"]>>,
     languageCount |-> 5, totalCodeBytes |-> 2000 * 1024,
     detectedTechnologies |-> Techs(31)]

Signals == {BareSignals, MidSignals, RichSignals}

Enrichment(u, c, sig) ==
    [userCommitCount |-> u, commitCount |-> c,
     packageJson |-> sig.packageJson, readme |-> sig.readme,
     languageCount |-> sig.languageCount,
     totalCodeBytes |-> sig.totalCodeBytes,
     detectedTechnologies |-> sig.detectedTechnologies]

EnrichedDatas ==
    {<<>>} \cup {<<Enrichment(u, c, sig)>> :
                    u \in UserCommitCounts, c \in CommitCounts, sig \in Signals}

RepoInputs ==
    [id : {1}, full_name : FullNames, fork : BOOLEAN, private : BOOLEAN,
     stargazers_count : Stars, forks_count : Forks,
     updated_at : UpdatedAts, enrichedData : EnrichedDatas]

\* fetchFileContent: the limits tried, and what the upstream may answer
MaxSizeBytesValues == {1, 2}

B64Alphabet == {"A", "Q", "=", "\n", "!"}

Payloads == UNION {[1..n -> B64Alphabet] : n \in 0..MaxContentLen}

NoBody ==
    [isObject |-> FALSE, size |-> 0, content |-> <<>>,
     contentIsString |-> TRUE, encoding |-> "none"]

\* the parsed JSON body: null (isObject = FALSE) or an object with a size,
\* a content that is a string or something else, and an encoding
Bodies ==
    {NoBody}
    \cup [isObject : {TRUE}, size : 0..MaxDeclaredSize, content : Payloads,
          contentIsString : {TRUE}, encoding : {"base64", "none"}]
    \cup [isObject : {TRUE}, size : 0..MaxDeclaredSize, content : {<<>>},
          contentIsString : {FALSE}, encoding : {"base64", "none"}]

\* Manifest texts: up to MaxLines of these lines, joined by line feeds
ManifestLines ==
    { <<>>, <<"a">>, <<"v">>, <<"#", "a">>, <<"a", " ", "v">>,
      <<"v", " ", "v">>, <<"a", "/", "v", " ", "v">>, <<" ", "a", "=", "v">> }

RECURSIVE JoinLines(_)
JoinLines(ls) ==
    IF ls = <<>> THEN <<>>
    ELSE IF Len(ls) = 1 THEN ls[1]
    ELSE ls[1] \o <<"\n">> \o JoinLines(Tail(ls))

ManifestTexts ==
    {JoinLines(ls) : ls \in UNION {[1..n -> ManifestLines] : n \in 0..MaxLines}}

\* what parseSetupPy returned: a list without repetition
SetupPyDeps == {<<>>, <<<<"a">>>>, <<<<"v">>>>, <<<<"v">>, <<"a">>>>}

ReadmeWordSet == {<<"g", "o">>, <<"G", "o">>, <<"G", "O">>, <<"a">>}

Readmes == UNION {[1..n -> ReadmeWordSet] : n \in 0..MaxReadmeWords}

\* Credentials: empty, blank, too short, well-formed
TOKEN_EMPTY == <<>>
TOKEN_BLANK == <<" ">>
TOKEN_SHORT == <<"g", "h", "p">>
TOKEN_OK    == <<"g", "h", "p", "_", "a", "a", "a", "a", "a", "a">>

Tokens == {TOKEN_EMPTY, TOKEN_BLANK, TOKEN_SHORT, TOKEN_OK}

ListedRepo(id, fn, login, fork, stars, forks) ==
    [id |-> id, full_name |-> fn, ownerLogin |-> login, fork |-> fork,
     stargazers_count |-> stars, forks_count |-> forks]

\* One entry of a listing answer, for every combination the filter tells apart
ListedKinds ==
    { ListedRepo(1, fn, login, fork, stars, forks) :
        fn \in {<<>>, <<<<>>>>, <<FN_BAD>>, <<FN_OWN>>, <<FN_CASE>>,
                <<FN_ORG>>},
        login \in {<<>>, <<AL_UP>>},
        fork \in BOOLEAN,
        stars \in {<<19>>, <<20>>},
        forks \in {<<9>>, <<10>>} }

FullPageKinds ==
    << ListedRepo(0, <<FN_OWN>>, <<AL>>, FALSE, <<0>>, <<0>>),
       ListedRepo(0, <<FN_OWN>>, <<AL>>, TRUE, <<19>>, <<10>>),
       ListedRepo(0, <<FN_ORG>>, <<<<"o">>>>, TRUE, <<50>>, <<50>>) >>

\* A page of REPOS_PER_PAGE entries with the ids base+1 .. base+REPOS_PER_PAGE
FullPage(base) ==
    [i \in 1..REPOS_PER_PAGE |->
        [FullPageKinds[((i - 1) % Len(FullPageKinds)) + 1]
            EXCEPT !.id = base + i]]

ListPages ==
    {<<>>, FullPage(0), FullPage(50)}
        \cup {<<k>> : k \in ListedKinds}
        \cup {<<ListedRepo(1, <<FN_OWN>>, <<<<"o">>>>, TRUE, <<>>, <<>>)>>}
        \cup {<<ListedRepo(500, <<FN_OWN>>, <<AL>>, FALSE, <<0>>, <<0>>),
                ListedRepo(500, <<FN_ORG>>, <<<<"o">>>>, TRUE, <<0>>, <<0>>)>>}

\* The body of an answer that is never parsed
NoListBody == [json |-> "error", items |-> <<>>]

ListBodies ==
    {NoListBody, [json |-> "object", items |-> <<>>]}
        \cup {[json |-> "array", items |-> p] : p \in ListPages}

ListStatuses == {NETWORK_ERROR, 200, 403, 429, 404}

Contributor(login, contributions) ==
    [login |-> login, contributions |-> contributions]

\* A page of CONTRIBUTORS_PER_PAGE contributors; the user, if present, is last
FullContributorPage(withUser) ==
    [i \in 1..CONTRIBUTORS_PER_PAGE |->
        IF withUser /\ i = CONTRIBUTORS_PER_PAGE
        THEN Contributor(<<AL_UP>>, <<7>>)
        ELSE Contributor(<<<<"o">>>>, <<1>>)]

ContributorPages ==
    { <<>>, FullContributorPage(FALSE), FullContributorPage(TRUE),
      <<Contributor(<<AL_UP>>, <<5>>)>>,
      <<Contributor(<<<<"o">>>>, <<3>>)>>,
      <<Contributor(<<<<"o">>>>, <<3>>), Contributor(<<AL>>, <<5>>)>>,
      <<Contributor(<<AL>>, <<>>)>>,
      <<Contributor(<<>>, <<2>>)>> }

ContributorBodies ==
    {[json |-> "object", items |-> <<>>]}
        \cup {[json |-> "array", items |-> p] : p \in ContributorPages}

ContributorStatuses == {200, 404, 500}

\* The optional username argument: undefined, plain, padded
CommitUsernames == {<<>>, <<AL>>, <<AL_SP>>}

LANG_GO         == <<"G", "o">>
LANG_RUST       == <<"R", "u", "s", "t">>
LANG_JAVA       == <<"J", "a", "v", "a">>
LANG_RUBY       == <<"R", "u", "b", "y">>
LANG_C          == <<"C">>
LANG_CPP        == <<"C", "+", "+">>
LANG_CMAKE      == <<"C", "M", "a", "k", "e">>
LANG_PYTHON     == <<"P", "y", "t", "h", "o", "n">>
LANG_JUPYTER    == <<"J", "u", "p", "y", "t", "e", "r", " ", "N", "o", "t", "e", "b", "o", "o", "k">>
LANG_JAVASCRIPT == <<"J", "a", "v", "a", "S", "c", "r", "i", "p", "t">>

Languages ==
    {LANG_GO, LANG_RUST, LANG_JAVA, LANG_RUBY, LANG_C, LANG_CPP, LANG_CMAKE,
     LANG_PYTHON, LANG_JUPYTER, LANG_JAVASCRIPT}

\* The keys of the answers of the languages endpoint
LanguageBreakdowns ==
    {{}} \cup {{l} : l \in Languages}
         \cup {{LANG_PYTHON, LANG_JUPYTER}, {LANG_C, LANG_CPP},
               {LANG_JAVASCRIPT, LANG_GO, LANG_JAVA}, Languages \ {LANG_JUPYTER}}

\* A repository handed to enrichRepoData and what the upstream holds for it
EnrichItem(fn, langs) ==
    [full_name |-> fn, upstream |-> langs, pc |-> "new", languages |-> {},
     requested |-> <<>>, failed |-> FALSE, enrichedData |-> <<>>]

PoolEnrichItems ==
    {EnrichItem(<<FN_OWN>>, {LANG_GO}), EnrichItem(<<FN_ORG>>, {LANG_PYTHON}),
     EnrichItem(<<FN_BAD>>, {})}

\* A batch longer than twice the default limit; only the repositories at
\* positions 1, ENRICH_DEFAULT_LIMIT + 1 and 2 * ENRICH_DEFAULT_LIMIT + 1 have
\* a full_name that lets requests be made
LongBatch ==
    [i \in 1..(2 * ENRICH_DEFAULT_LIMIT + 1) |->
        IF i = 1 THEN EnrichItem(<<FN_OWN>>, {LANG_GO})
        ELSE IF i = ENRICH_DEFAULT_LIMIT + 1
        THEN EnrichItem(<<FN_ORG>>, {LANG_PYTHON})
        ELSE IF i = 2 * ENRICH_DEFAULT_LIMIT + 1
        THEN EnrichItem(<<FN_CASE>>, {LANG_RUST})
        ELSE EnrichItem(<<FN_BAD>>, {})]

\* Batches: one repository over the whole domain, up to MaxBatch from the
\* pool, or the long batch
EnrichBatches ==
    {<<EnrichItem(fn, langs)>> :
        fn \in {<<>>, <<FN_BAD>>, <<FN_OWN>>}, langs \in LanguageBreakdowns}
    \cup UNION {[1..n -> PoolEnrichItems] : n \in 0..MaxBatch}
    \cup {LongBatch}

\* The limit argument: omitted, or a number
Limits == {<<>>} \cup {<<n>> : n \in 1..MaxBatch}

Repo(fn, fork, priv, stars, forks, upd, data) ==
    [id |-> 1, full_name |-> fn, fork |-> fork, private |-> priv,
     stargazers_count |-> stars, forks_count |-> forks,
     updated_at |-> upd, enrichedData |-> data]

\* A few repositories of RepoInputs from which lists are built
PoolRepos ==
    { Repo(FN_OWN, FALSE, FALSE, 0, 0, <<Today - 88>>, <<>>),
      Repo(FN_ORG, FALSE, FALSE, 11, 0, <<>>, <<>>),
      Repo(FN_CASE, TRUE, FALSE, 0, 0, <<Today - 400>>, <<>>),
      Repo(FN_ORG, FALSE, TRUE, 0, 0, <<Today - 400>>, <<>>),
      Repo(FN_ORG, FALSE, FALSE, 101, 21, <<Today - 29>>,
           <<Enrichment(0, 600, RichSignals)>>),
      Repo(FN_OWN, FALSE, TRUE, 0, 0, <<Today - 400>>,
           <<Enrichment(0, 0, BareSignals)>>),
      Repo(FN_ORG, FALSE, FALSE, 0, 0, <<Today - 29>>,
           <<Enrichment(25, 100, MidSignals)>>),
      Repo(FN_OWN, FALSE, FALSE, 11, 6, <<Today - 88>>,
           <<Enrichment(30, 101, RichSignals)>>) }

----------------------------------------------------------------------------
(* Operations *)

NoRequest == [maxSizeBytes |-> 0, upstream |-> "none", body |-> NoBody]

FetchIdle ==
    /\ fpc = "idle"
    /\ freq = NoRequest
    /\ ftimer = "unset"
    /\ fresult = ResultPending

NoLists == [pythonDependencies |-> <<>>, techMentions |-> <<>>,
            detectedTechnologies |-> <<>>]

ParseIdle ==
    [pc |-> "idle", text |-> <<>>, setupPyDeps |-> <<>>, readme |-> <<>>,
     requirements |-> <<>>, goMod |-> <<>>, lists |-> NoLists]

ListIdle ==
    [pc |-> "idle", token |-> <<>>, username |-> <<>>, page |-> 1,
     repos |-> <<>>, log |-> <<>>, answers |-> <<>>, result |-> <<>>]
CommitIdle ==
    [pc |-> "idle", username |-> <<>>, page |-> 1, all |-> <<>>,
     log |-> <<>>, answers |-> <<>>, timer |-> "unset", failure |-> "none",
     failPage |-> 0, result |-> Zero]
EnrichIdle ==
    [pc |-> "idle", limit |-> <<>>, input |-> <<>>, items |-> <<>>,
     result |-> <<>>]
AppIdle ==
    [pc |-> "idle", state |-> "IDLE", isGenerating |-> FALSE, token |-> <<>>,
     login |-> <<>>, calls |-> <<>>, requests |-> 0, listed |-> <<>>, runs |-> 0,
     inFlight |-> 0, ignored |-> 0]

WaveIdle ==
    [pc |-> "idle", upstream |-> {},
     first |-> [f \in FirstWaveFetches |-> "unsent"],
     second |-> [f \in {} |-> "unsent"],
     pendingAtSecond |-> {}, pendingAtParse |-> {},
     failed |-> FALSE, enrichedData |-> <<>>]

RestIdle ==
    /\ parse = ParseIdle
    /\ lst = ListIdle
    /\ cc = CommitIdle
    /\ enr = EnrichIdle
    /\ app = AppIdle
    /\ wave = WaveIdle

InitScore ==
    /\ now = Today
    /\ out = <<>>
    /\ outNow = Today
    /\ prevOut = <<>>
    /\ prevNow = Today
    /\ calls = 0

\* One repository, drawn from the whole input domain
Init ==
    /\ repos \in {<<r>> : r \in RepoInputs}
    /\ username \in Usernames
    /\ InitScore
    /\ FetchIdle
    /\ RestIdle

\* const scoredRepos = scoreAndSortRepos(enrichedRepos, user.login)
ScoreAndSort ==
    /\ calls < MaxCalls
    /\ out' = scoreAndSortRepos(repos, username, now)
    /\ outNow' = now
    /\ prevOut' = out
    /\ prevNow' = outNow
    /\ calls' = calls + 1
    /\ UNCHANGED <<repos, username, now>>
    /\ UNCHANGED fetchVars
    /\ UNCHANGED restVars

\* Time passes between two calls (Date.now() is read by every call)
Tick ==
    /\ now < Today + MaxTicks
    /\ now' = now + 1
    /\ UNCHANGED <<repos, username, out, outNow, prevOut, prevNow, calls>>
    /\ UNCHANGED fetchVars
    /\ UNCHANGED restVars

\* fetchFileContent is called: the abort timer is set and the request sent
FetchStart ==
    /\ fpc = "idle"
    /\ \E m \in MaxSizeBytesValues :
          freq' = [freq EXCEPT !.maxSizeBytes = m, !.upstream = "pending"]
    /\ ftimer' = "armed"
    /\ fpc' = "awaitFetch"
    /\ UNCHANGED fresult
    /\ UNCHANGED scoreVars
    /\ UNCHANGED restVars

\* fetch resolves with a response: clearTimeout, then the response.ok test
FetchRespond ==
    /\ fpc = "awaitFetch"
    /\ ftimer = "armed"
    /\ ftimer' = "cleared"
    /\ \E ok \in BOOLEAN :
          IF ok
          THEN /\ freq' = [freq EXCEPT !.upstream = "ok"]
               /\ fpc' = "awaitJson"
               /\ UNCHANGED fresult
          ELSE /\ freq' = [freq EXCEPT !.upstream = "non2xx"]
               /\ fpc' = "done"
               /\ fresult' = ResultNull
    /\ UNCHANGED scoreVars
    /\ UNCHANGED restVars

\* fetch rejects with a network error; the timer is left running
FetchNetworkError ==
    /\ fpc = "awaitFetch"
    /\ ftimer = "armed"
    /\ freq' = [freq EXCEPT !.upstream = "networkError"]
    /\ fresult' = OuterCatch("TypeError")
    /\ fpc' = "done"
    /\ UNCHANGED ftimer
    /\ UNCHANGED scoreVars
    /\ UNCHANGED restVars

\* the timer fires: controller.abort() rejects a fetch still in flight with
\* an AbortError and is without effect once the function has returned
TimeoutFires ==
    /\ ftimer = "armed"
    /\ ftimer' = "fired"
    /\ IF fpc = "awaitFetch"
       THEN /\ freq' = [freq EXCEPT !.upstream = "abort"]
            /\ fresult' = OuterCatch("AbortError")
            /\ fpc' = "done"
       ELSE UNCHANGED <<freq, fresult, fpc>>
    /\ UNCHANGED scoreVars
    /\ UNCHANGED restVars

\* response.json() resolves with the parsed body, which is then handled
JsonResolve ==
    /\ fpc = "awaitJson"
    /\ \E data \in Bodies :
          /\ freq' = [freq EXCEPT !.body = data]
          /\ fresult' = HandleBody(data, freq.maxSizeBytes)
    /\ fpc' = "done"
    /\ UNCHANGED ftimer
    /\ UNCHANGED scoreVars
    /\ UNCHANGED restVars

\* response.json() rejects: the body is not JSON
JsonReject ==
    /\ fpc = "awaitJson"
    /\ freq' = [freq EXCEPT !.upstream = "malformedBody"]
    /\ fresult' = OuterCatch("SyntaxError")
    /\ fpc' = "done"
    /\ UNCHANGED ftimer
    /\ UNCHANGED scoreVars
    /\ UNCHANGED restVars

Next == ScoreAndSort

Spec == Init /\ [][Next]_vars

\* Lists of up to MaxRepos repositories drawn from PoolRepos; the id of a
\* repository is its position in the list.
InitList ==
    /\ repos \in {[i \in DOMAIN f |-> [f[i] EXCEPT !.id = i]] :
                    f \in UNION {[1..n -> PoolRepos] : n \in 0..MaxRepos}}
    /\ username \in Usernames
    /\ InitScore
    /\ FetchIdle
    /\ RestIdle

NextList == ScoreAndSort \/ Tick

SpecList == InitList /\ [][NextList]_vars

\* One call of fetchFileContent against an arbitrary upstream
InitFetch ==
    /\ repos = <<>>
    /\ username = AL
    /\ InitScore
    /\ FetchIdle
    /\ RestIdle

NextFetch ==
    \/ FetchStart
    \/ FetchRespond
    \/ FetchNetworkError
    \/ TimeoutFires
    \/ JsonResolve
    \/ JsonReject

SpecFetch == InitFetch /\ [][NextFetch]_vars

\* The parsers run on a fetched text, and the lists of the record are built
ParseManifests ==
    /\ parse.pc = "idle"
    /\ parse' = [parse EXCEPT
                    !.pc = "done",
                    !.requirements = parseRequirementsTxt(parse.text),
                    !.goMod = parseGoMod(parse.text),
                    !.lists = EnrichedLists(parse.text, parse.setupPyDeps,
                                            parse.readme)]
    /\ UNCHANGED <<lst, cc, enr, app, wave>>
    /\ UNCHANGED scoreVars
    /\ UNCHANGED fetchVars

InitParse ==
    /\ repos = <<>>
    /\ username = AL
    /\ InitScore
    /\ FetchIdle
    /\ \E t \in ManifestTexts, d \in SetupPyDeps, r \in Readmes :
          parse = [ParseIdle EXCEPT !.text = t, !.setupPyDeps = d, !.readme = r]
    /\ lst = ListIdle
    /\ cc = CommitIdle
    /\ enr = EnrichIdle
    /\ app = AppIdle
    /\ wave = WaveIdle

NextParse == ParseManifests

SpecParse == InitParse /\ [][NextParse]_vars

------------------------------------------------------------\* fetchAllRepos(token, username) up to its first await
ListStart ==
    /\ lst.pc = "idle"
    /\ \E token \in {TOKEN_EMPTY, TOKEN_OK}, user \in {<<>>, AL, AL_SP} :
          lst' = ListBegin(token, user)
    /\ UNCHANGED <<parse, cc, enr, app, wave>>
    /\ UNCHANGED scoreVars
    /\ UNCHANGED fetchVars

\* The answer to a /user/repos request and the code up to the next await
ListMyRespond ==
    /\ lst.pc = "awaitMy"
    /\ \E status \in ListStatuses :
          \E body \in IF Ok(status) THEN ListBodies ELSE {NoListBody} :
             lst' = ListAfterMy([lst EXCEPT !.answers =
                                    Append(@, Answer(status, body))],
                                status, body)
    /\ UNCHANGED <<parse, cc, enr, app, wave>>
    /\ UNCHANGED scoreVars
    /\ UNCHANGED fetchVars

\* The answer to the /users/{username}/repos request
ListPublicRespond ==
    /\ lst.pc = "awaitPublic"
    /\ \E status \in ListStatuses :
          \E body \in IF Ok(status) THEN ListBodies ELSE {NoListBody} :
             lst' = ListAfterPublic([lst EXCEPT !.answers =
                                        Append(@, Answer(status, body))],
                                    status, body)
    /\ UNCHANGED <<parse, cc, enr, app, wave>>
    /\ UNCHANGED scoreVars
    /\ UNCHANGED fetchVars

InitListing ==
    /\ repos = <<>>
    /\ username = AL
    /\ InitScore
    /\ FetchIdle
    /\ RestIdle

NextListing ==
    \/ ListStart
    \/ ListMyRespond
    \/ ListPublicRespond

SpecListing == InitListing /\ [][NextListing]_vars

\* fetchCommitCount(token, owner, repo, username) up to its first await
CommitStart ==
    /\ cc.pc = "idle"
    /\ \E user \in CommitUsernames :
          cc' = CommitRequest([cc EXCEPT !.username = user, !.timer = "set"])
    /\ UNCHANGED <<parse, lst, enr, app, wave>>
    /\ UNCHANGED scoreVars
    /\ UNCHANGED fetchVars

\* The response headers of a contributors page arrive
CommitRespond ==
    /\ cc.pc = "awaitResponse"
    /\ \E status \in ContributorStatuses :
          cc' = CommitAfterStatus(
                   IF Ok(status) THEN cc
                   ELSE [cc EXCEPT !.answers =
                            Append(@, [status |-> status, count |-> 0,
                                       hasUser |-> FALSE])],
                   status)
    /\ UNCHANGED <<parse, lst, enr, app, wave>>
    /\ UNCHANGED scoreVars
    /\ UNCHANGED fetchVars

\* fetch() rejects: the catch block returns the zero record
CommitNetworkError ==
    /\ cc.pc = "awaitResponse"
    /\ cc' = CommitCatch(cc, "network")
    /\ UNCHANGED <<parse, lst, enr, app, wave>>
    /\ UNCHANGED scoreVars
    /\ UNCHANGED fetchVars

\* The timer set at the start expires: the pending await rejects with an
\* AbortError
CommitTimeoutFires ==
    /\ cc.timer = "set"
    /\ cc.pc \in {"awaitResponse", "awaitJson"}
    /\ cc' = CommitCatch([cc EXCEPT !.timer = "fired"], "abort")
    /\ UNCHANGED <<parse, lst, enr, app, wave>>
    /\ UNCHANGED scoreVars
    /\ UNCHANGED fetchVars

\* response.json() resolves
CommitJsonResolve ==
    /\ cc.pc = "awaitJson"
    /\ \E body \in ContributorBodies :
          cc' = CommitTakePage(
                   [cc EXCEPT !.answers =
                       Append(@, [status |-> 200,
                                  count |-> Len(body.items),
                                  hasUser |-> PageHasUser(body.items,
                                                          cc.username)])],
                   body)
    /\ UNCHANGED <<parse, lst, enr, app, wave>>
    /\ UNCHANGED scoreVars
    /\ UNCHANGED fetchVars

\* response.json() rejects on a body that is not JSON
CommitJsonReject ==
    /\ cc.pc = "awaitJson"
    /\ cc' = CommitCatch(cc, "json")
    /\ UNCHANGED <<parse, lst, enr, app, wave>>
    /\ UNCHANGED scoreVars
    /\ UNCHANGED fetchVars

InitCommit ==
    /\ repos = <<>>
    /\ username = AL
    /\ InitScore
    /\ FetchIdle
    /\ RestIdle

NextCommit ==
    \/ CommitStart
    \/ CommitRespond
    \/ CommitNetworkError
    \/ CommitTimeoutFires
    \/ CommitJsonResolve
    \/ CommitJsonReject

SpecCommit == InitCommit /\ [][NextCommit]_vars

\* enrichRepoData(token, repos, username, limit) up to its first await
EnrichStart ==
    /\ enr.pc = "idle"
    /\ \E batch \in EnrichBatches, limit \in Limits :
          enr' = EnrichJoin(EnrichBeginAll(
                    [enr EXCEPT !.pc = "running", !.limit = limit,
                                !.input = batch,
                                !.items = TopRepos(batch, limit)], 1))
    /\ UNCHANGED <<parse, lst, cc, app, wave>>
    /\ UNCHANGED scoreVars
    /\ UNCHANGED fetchVars

\* The first Promise.all of one repository settles
EnrichWave1 ==
    /\ enr.pc = "running"
    /\ \E i \in 1..Len(enr.items) :
          /\ enr.items[i].pc = "wave1"
          /\ \E outcome \in {"reject", "noLanguages", "ok"} :
                enr' = EnrichJoin(
                   IF outcome = "reject" THEN EnrichCatch(enr, i)
                   ELSE EnrichAfterWave1(enr, i,
                           IF outcome = "ok" THEN enr.items[i].upstream
                           ELSE {}))
    /\ UNCHANGED <<parse, lst, cc, app, wave>>
    /\ UNCHANGED scoreVars
    /\ UNCHANGED fetchVars

\* The second Promise.all of one repository settles
EnrichWave2 ==
    /\ enr.pc = "running"
    /\ \E i \in 1..Len(enr.items) :
          /\ enr.items[i].pc = "wave2"
          /\ \E outcome \in {"reject", "absent", "found"} :
                /\ outcome = "reject" => enr.items[i].requested # <<>>
                /\ enr' = EnrichJoin(
                      IF outcome = "reject" THEN EnrichCatch(enr, i)
                      ELSE EnrichAfterWave2(enr, i, outcome = "found"))
    /\ UNCHANGED <<parse, lst, cc, app, wave>>
    /\ UNCHANGED scoreVars
    /\ UNCHANGED fetchVars

InitEnrich ==
    /\ repos = <<>>
    /\ username = AL
    /\ InitScore
    /\ FetchIdle
    /\ RestIdle

NextEnrich ==
    \/ EnrichStart
    \/ EnrichWave1
    \/ EnrichWave2

SpecEnrich == InitEnrich /\ [][NextEnrich]_vars

\* handleStart(githubToken, ...) is invoked and nothing is in progress
AppStart ==
    /\ ~app.isGenerating
    /\ app.runs < MaxRuns
    /\ \E token \in Tokens : app' = handleStart(app, token)
    /\ UNCHANGED <<parse, lst, cc, enr, wave>>
    /\ UNCHANGED scoreVars
    /\ UNCHANGED fetchVars

\* The form is submitted again while a pipeline is awaiting an answer
AppStartWhileGenerating ==
    /\ app.isGenerating
    /\ app.runs < MaxRuns
    /\ app.ignored < MaxRuns
    /\ \E token \in Tokens : app' = handleStart(app, token)
    /\ UNCHANGED <<parse, lst, cc, enr, wave>>
    /\ UNCHANGED scoreVars
    /\ UNCHANGED fetchVars

\* How a call of fetchAllRepos ends, as handleStart sees it
ListOutcomes ==
    {[pc |-> "threw", count |-> 0]}
        \cup {[pc |-> "returned", count |-> n] : n \in 0..MaxRepos}

\* The request of validateToken settles; on success fetchAllRepos is called
\* with the token and the login of the answer
AppValidateRespond ==
    /\ app.pc = "validating"
    /\ \E status \in {NETWORK_ERROR, 200, 401, 403, 500},
          user \in {[json |-> "error", login |-> <<>>],
                    [json |-> "object", login |-> <<>>],
                    [json |-> "object", login |-> AL]} :
          IF ~Ok(status) \/ user.json = "error"
          THEN app' = AppCatch(app)
          ELSE app' = LET a2 == [app EXCEPT
                                   !.calls = Append(@, "fetchAllRepos"),
                                   !.login = user.login]
                      IN  IF ListArgsRejected(app.token, user.login)
                          THEN AppCatch(a2)
                          ELSE [a2 EXCEPT !.pc = "listing"]
    /\ UNCHANGED <<parse, lst, cc, enr, wave>>
    /\ UNCHANGED scoreVars
    /\ UNCHANGED fetchVars

\* fetchAllRepos has settled, with an exception or with a list of some
\* length: the test for an empty list, then enrichRepoData
AppAfterList ==
    /\ app.pc = "listing"
    /\ \E outcome \in ListOutcomes : app' = AppTakeRepos(app, outcome)
    /\ UNCHANGED <<parse, lst, cc, enr, wave>>
    /\ UNCHANGED scoreVars
    /\ UNCHANGED fetchVars

\* enrichRepoData has resolved: scoreAndSortRepos, then the resume generation
AppAfterEnrich ==
    /\ app.pc = "enriching"
    /\ app' = [app EXCEPT !.pc = "generating", !.state = "ANALYZING_AI",
                          !.calls = @ \o <<"scoreAndSortRepos",
                                           "generateResumeFromGithub">>]
    /\ UNCHANGED <<parse, lst, cc, enr, wave>>
    /\ UNCHANGED scoreVars
    /\ UNCHANGED fetchVars

\* generateResumeFromGithub settles
AppAfterGenerate ==
    /\ app.pc = "generating"
    /\ \E ok \in BOOLEAN :
          app' = IF ok THEN [app EXCEPT !.pc = "idle", !.state = "READY",
                                       !.isGenerating = FALSE,
                                       !.inFlight = @ - 1]
                 ELSE AppCatch(app)
    /\ UNCHANGED <<parse, lst, cc, enr, wave>>
    /\ UNCHANGED scoreVars
    /\ UNCHANGED fetchVars

InitApp ==
    /\ repos = <<>>
    /\ username = AL
    /\ InitScore
    /\ FetchIdle
    /\ RestIdle

NextApp ==
    \/ AppStart
    \/ AppStartWhileGenerating
    \/ AppValidateRespond
    \/ AppAfterList
    \/ AppAfterEnrich
    \/ AppAfterGenerate
    \/ ListStart

SpecApp == InitApp /\ [][NextApp]_vars

\* The callback runs for one repository: the six requests are sent
WaveStart ==
    /\ wave.pc = "idle"
    /\ \E languages \in {{}, {"go"}, {"python"}} :
          wave' = [wave EXCEPT !.pc = "wave1", !.upstream = languages,
                               !.first = [f \in FirstWaveFetches |-> "pending"]]
    /\ UNCHANGED <<parse, lst, cc, enr, app>>
    /\ UNCHANGED scoreVars
    /\ UNCHANGED fetchVars

FetchOutcomes == {"ok", "failure", "timeout"}

\* One promise of the first Promise.all settles
WaveFirstSettle ==
    /\ wave.pc = "wave1"
    /\ \E f \in PendingFetches(wave.first), outcome \in FetchOutcomes :
          wave' = WaveContinue(
                     [wave EXCEPT !.first[f] = SubFetchSettle(outcome)])
    /\ UNCHANGED <<parse, lst, cc, enr, app>>
    /\ UNCHANGED scoreVars
    /\ UNCHANGED fetchVars

\* One promise of the second Promise.all settles
WaveSecondSettle ==
    /\ wave.pc = "wave2"
    /\ \E f \in PendingFetches(wave.second), outcome \in FetchOutcomes :
          wave' = WaveContinue(
                     [wave EXCEPT !.second[f] = SubFetchSettle(outcome)])
    /\ UNCHANGED <<parse, lst, cc, enr, app>>
    /\ UNCHANGED scoreVars
    /\ UNCHANGED fetchVars

InitWave ==
    /\ repos = <<>>
    /\ username = AL
    /\ InitScore
    /\ FetchIdle
    /\ RestIdle

NextWave ==
    \/ WaveStart
    \/ WaveFirstSettle
    \/ WaveSecondSettle

SpecWave == InitWave /\ [][NextWave]_vars

----------------
(* Properties of scoreAndSortRepos *)

UsernameLower == ToLowerCase(username)

Owned(r) == IsOwner(r.full_name, UsernameLower)

Enriched(r) == r.enrichedData # <<>>

InOutput(r) == \E j \in DOMAIN out : out[j].id = r.id

\* the score the latest call computed for an input repository
ScoreOf(r) == CalculatedScore(r, UsernameLower, outNow)

\* C1: a repository that is not owned by the user and whose enrichment
\* record has userCommitCount = 0 never appears in the output, whatever its
\* other signals.
C1_NonOwnedZeroCommitsExcluded ==
    calls >= 1 =>
        \A i \in DOMAIN repos :
            (/\ ~Owned(repos[i])
             /\ Enriched(repos[i])
             /\ repos[i].enrichedData[1].userCommitCount = 0)
            => ~InOutput(repos[i])

C1_Witness ==
    /\ calls >= 1
    /\ out = <<>>
    /\ \E i \in DOMAIN repos :
          /\ repos[i].full_name = FN_ORG
          /\ repos[i].private = FALSE
          /\ repos[i].stargazers_count = 101
          /\ repos[i].forks_count = 21
          /\ repos[i].updated_at = <<Today - 29>>
          /\ repos[i].enrichedData = <<Enrichment(0, 600, RichSignals)>>

\* C2: an owned non-fork repository without enrichment record is always in
\* the output, with a score of at least 20.
C2_OwnedUnenrichedKept ==
    calls >= 1 =>
        \A i \in DOMAIN repos :
            (Owned(repos[i]) /\ ~repos[i].fork /\ ~Enriched(repos[i]))
            => \E j \in DOMAIN out :
                  /\ out[j].id = repos[i].id
                  /\ out[j].calculatedScore >= 20

C2_Witness ==
    /\ calls >= 1
    /\ \E j \in DOMAIN out :
          /\ Owned(out[j])
          /\ ~out[j].fork
          /\ ~Enriched(out[j])
          /\ out[j].private = TRUE
          /\ out[j].stargazers_count = 0
          /\ out[j].forks_count = 0
          /\ out[j].updated_at = <<>>
          /\ out[j].calculatedScore = 20

\* C3: an owned non-fork repository is never removed, for every enrichment
\* record.
C3_OwnedNonForkNeverRemoved ==
    calls >= 1 =>
        \A i \in DOMAIN repos :
            (Owned(repos[i]) /\ ~repos[i].fork /\ Enriched(repos[i]))
            => InOutput(repos[i])

\* the filter rule as the specification words it
KeptByRule(s, owned) == ~(s < -1000) /\ (s > 0 \/ (s >= 0 /\ owned))

C5_SortedStable ==
    calls >= 1 =>
        \A j, k \in DOMAIN out :
            j < k =>
                /\ out[j].calculatedScore >= out[k].calculatedScore
                /\ out[j].calculatedScore = out[k].calculatedScore
                       => out[j].id < out[k].id

C5_Witness ==
    /\ calls >= 1
    /\ Len(out) = 3
    /\ out[1].calculatedScore > out[2].calculatedScore
    /\ out[2].calculatedScore = out[3].calculatedScore
    /\ out[1].id = 3

\* the recency tests a repository passes at clock reading t
RecencyTests(r, t) ==
    {k \in {30, 90, 180} : DaysLess(DaysSinceUpdate(r.updated_at, t), k)}

SameRecency(t1, t2) ==
    \A i \in DOMAIN repos : RecencyTests(repos[i], t1) = RecencyTests(repos[i], t2)

\* C6 as stated: two calls on the same list and username return the same
\* repositories, scores and order.
C6_TwoCallsAgree == calls >= 2 => out = prevOut

\* C6, amended: two calls on the same list and username return the same
\* repositories, scores and order provided no repository's age crosses one
\* of the recency thresholds (30, 90, 180 days) between the two clock
\* readings.
C6_TwoCallsAgreeSameRecency ==
    (calls >= 2 /\ SameRecency(prevNow, outNow)) => out = prevOut

C6_Witness ==
    /\ calls >= 2
    /\ prevNow # outNow
    /\ SameRecency(prevNow, outNow)
    /\ Len(out) >= 2
    /\ \E j \in DOMAIN out : out[j].updated_at = <<Today - 88>>

\* the delta the contribution gate gave an enriched, well-formed repository
\* whose score is not the sentinel
AppliedGate(r) ==
    ScoreOf(r) - SignalDeltas(r, r.enrichedData[1], Owned(r), outNow)

IsBoundaryRepo(r) ==
    /\ Len(Split(r.full_name)) >= 2
    /\ ~Owned(r)
    /\ Enriched(r)
    /\ r.enrichedData[1].userCommitCount = 10
    /\ r.enrichedData[1].commitCount = 100

\* C7 as stated: a non-owned repository with userCommitCount = 10 and
\* commitCount = 100 receives the -200 gating penalty.
C7_BoundaryGetsMinus200 ==
    calls >= 1 =>
        \A i \in DOMAIN repos :
            IsBoundaryRepo(repos[i]) => AppliedGate(repos[i]) = -200

\* C7, amended: a non-owned repository with userCommitCount = 10 and
\* commitCount = 100 receives the -100 penalty of the "<20 commits or <25%
\* ratio" tier, because neither 10 < 10 nor 0.1 < 0.1 holds.
C7_BoundaryGetsMinus100 ==
    calls >= 1 =>
        \A i \in DOMAIN repos :
            IsBoundaryRepo(repos[i]) =>
                /\ AppliedGate(repos[i]) = -100
                /\ \A j \in DOMAIN out :
                      out[j].id = repos[i].id =>
                          out[j].calculatedScore =
                              SignalDeltas(repos[i], repos[i].enrichedData[1],
                                           FALSE, outNow) - 100

C7_Witness ==
    /\ calls >= 1
    /\ \E j \in DOMAIN out :
          /\ IsBoundaryRepo(out[j])
          /\ out[j].enrichedData[1].readme = RichSignals.readme

\* C8: every fork and every non-owned repository in the output has an
\* enrichment record with userCommitCount > 0.
C8_ForksAndOrgReposNeedCommits ==
    calls >= 1 =>
        \A j \in DOMAIN out :
            (out[j].fork \/ ~Owned(out[j])) =>
                /\ Enriched(out[j])
                /\ out[j].enrichedData[1].userCommitCount > 0

----------------------------------------------------------------------------
(* Properties of fetchFileContent *)

\* the body reached the decoder: it passed the declared-size test and has a
\* string content marked base64
ReachedDecoder ==
    /\ freq.upstream = "ok"
    /\ freq.body.isObject
    /\ ~(freq.body.size # 0 /\ freq.body.size > freq.maxSizeBytes)
    /\ freq.body.contentIsString
    /\ freq.body.content # <<>>
    /\ freq.body.encoding = "base64"

Decoding == Atob(freq.body.content)

\* C9: fetchFileContent never rejects; when the declared size or the
\* decoded length exceeds maxSizeBytes it returns null and no prefix of the
\* file; every result that is not null is the complete decoded content of
\* the payload and is no longer than maxSizeBytes.
C9_NeverThrowsCompleteOrAbsent ==
    fpc = "done" =>
        /\ fresult.kind \in {"null", "value"}
        /\ (/\ freq.upstream = "ok"
            /\ freq.body.isObject
            /\ freq.body.size > freq.maxSizeBytes) => fresult.kind = "null"
        /\ (ReachedDecoder /\ Decoding.ok
              /\ Len(Decoding.bytes) > freq.maxSizeBytes) => fresult.kind = "null"
        /\ fresult.kind = "value" =>
              /\ Len(fresult.value) <= freq.maxSizeBytes
              /\ ReachedDecoder
              /\ Decoding.ok
              /\ fresult.value = Decoding.bytes

\* What holds of fetchFileContent: it never rejects, an oversized file gives
\* null, and the result for a payload that decodes is the whole content.
FetchNoRejectNoTruncation ==
    fpc = "done" =>
        /\ fresult.kind \in {"null", "value"}
        /\ (/\ freq.upstream = "ok"
            /\ freq.body.isObject
            /\ freq.body.size > freq.maxSizeBytes) => fresult.kind = "null"
        /\ (ReachedDecoder /\ Decoding.ok
              /\ Len(Decoding.bytes) > freq.maxSizeBytes) => fresult.kind = "null"
        /\ fresult.kind = "value" =>
              /\ Len(fresult.value) <= freq.maxSizeBytes
              /\ ReachedDecoder
              /\ Decoding.ok => fresult.value = Decoding.bytes

\* C10: a non-2xx response, a failure while base64-decoding the payload and
\* an abort by the timeout each yield null; a decode failure never yields a
\* string.
C10_FailuresYieldNull ==
    fpc = "done" =>
        /\ freq.upstream = "non2xx" => fresult.kind = "null"
        /\ freq.upstream = "abort" => fresult.kind = "null"
        /\ (ReachedDecoder /\ ~Decoding.ok) => fresult.kind = "null"

----------------------------------------------------------------------------
(* Properties of the manifest parsers and of the enrichment record *)

NoRepeat(s) == \A i, j \in DOMAIN s : s[i] = s[j] => i = j

\* C11: every manifest parser returns a list without repeated element and
\* no longer than its cap (500 for requirements.txt, 100 for go.mod).
C11_ParsersDedupAndCap ==
    parse.pc = "done" =>
        /\ NoRepeat(parse.requirements)
        /\ Len(parse.requirements) <= REQUIREMENTS_MAX_LINES
        /\ NoRepeat(parse.goMod)
        /\ Len(parse.goMod) <= DEPS_CAP

\* C12: every dependency or technology list stored in an enrichment record
\* is without duplicate entry and bounded in length.
C12_RecordListsDeduped ==
    parse.pc = "done" =>
        /\ NoRepeat(parse.lists.pythonDependencies)
        /\ NoRepeat(parse.lists.techMentions)
        /\ NoRepeat(parse.lists.detectedTechnologies)
        /\ Len(parse.lists.techMentions) <= MENTIONS_CAP
        /\ Len(parse.lists.pythonDependencies) <= REQUIREMENTS_MAX_LINES + DEPS_CAP

----------------------------------------------------------------------------
(* fetchAllRepos: the requests it issues *)

\* The indexes of the log that hold a request to the given endpoint
RequestsTo(endpoint) ==
    {i \in 1..Len(lst.log) : lst.log[i].endpoint = endpoint}

\* The i-th request has been answered
Answered(i) == i <= Len(lst.answers)

\* At most MAX_PAGES requests to /user/repos, for the pages 1, 2, 3 in order
MyPagesInOrder ==
    LET my == SelectSeq(lst.log, LAMBDA r : r.endpoint = "my")
    IN  /\ Len(my) <= MAX_PAGES
        /\ \A i \in 1..Len(my) : my[i].page = i

\* The fallback request is never issued for page 2 or 3, and at most once
FallbackOnlyForPageOne ==
    /\ \A i \in RequestsTo("public") : lst.log[i].page = 1
    /\ Cardinality(RequestsTo("public")) <= 1

\* C13: at most 3 requests to "my repos", for pages 1, 2, 3 in order, page k+1
\* only after page k of "my repos" returned a full page of 100 entries; one
\* fallback request whenever the page-1 request fails in any way, and none for
\* a failure on page 2 or 3.
C13_PagesAndFallbackOnAnyFailure ==
    /\ MyPagesInOrder
    /\ \A i \in RequestsTo("my") :
          lst.log[i].page > 1 =>
             \E j \in RequestsTo("my") :
                /\ j < i
                /\ lst.log[j].page = lst.log[i].page - 1
                /\ Ok(lst.answers[j].status)
                /\ lst.answers[j].count = REPOS_PER_PAGE
    /\ \A j \in RequestsTo("my") :
          (lst.log[j].page = 1 /\ Answered(j) /\ ~Ok(lst.answers[j].status))
             => RequestsTo("public") # {}
    /\ FallbackOnlyForPageOne

\* C13 (amended): at most 3 requests to "my repos", for pages 1, 2, 3 in
\* order; page k+1 is requested only after the request before it (page k of
\* "my repos", or the fallback request when k = 1) returned a full page of 100
\* entries; the fallback request is issued exactly when the page-1 request is
\* answered with a non-2xx status other than 403 and 429, so a network error
\* or a 403/429 answer on page 1 issues none; and none is issued for page 2
\* or 3.
C13_PagesAndFallbackOnBadStatus ==
    /\ MyPagesInOrder
    /\ \A i \in RequestsTo("my") :
          lst.log[i].page > 1 =>
             /\ lst.log[i - 1].page = lst.log[i].page - 1
             /\ Ok(lst.answers[i - 1].status)
             /\ lst.answers[i - 1].count = REPOS_PER_PAGE
    /\ \A j \in RequestsTo("my") :
          (lst.log[j].page = 1 /\ Answered(j)) =>
             ( RequestsTo("public") # {}
                 <=> /\ ~Ok(lst.answers[j].status)
                     /\ lst.answers[j].status \notin {NETWORK_ERROR, 403, 429} )
    /\ \A i \in RequestsTo("public") : i = 2
    /\ FallbackOnlyForPageOne

\* The fallback returned a full page, page 2 of "my repos" was requested and
\* the listing returned
C13_Witness ==
    /\ lst.pc = "returned"
    /\ Len(lst.log) = 3
    /\ lst.log[2].endpoint = "public"
    /\ lst.answers[2].count = REPOS_PER_PAGE
    /\ lst.log[3] = [endpoint |-> "my", page |-> 2]

----------------------------------------------------------------------------
(* fetchAllRepos: the relevance filter *)

\* full_name is a string that contains the owner/name separator
HasSeparator(repo) ==
    /\ repo.full_name # <<>>
    /\ \E i \in 1..Len(repo.full_name[1]) : repo.full_name[1][i] = "/"

\* The rule of the listing: well-formed, and either not a fork or a fork of
\* the user's own with at least 20 stars or at least 10 forks
KeptByListingRule(repo, user) ==
    /\ HasSeparator(repo)
    /\ \/ ~repo.fork
       \/ /\ IsOwnRepo(repo, user)
          /\ \/ NumberOrZero(repo.stargazers_count) >= 20
             \/ NumberOrZero(repo.forks_count) >= 10

\* C14: after deduplication by id, a listed repository is returned if and only
\* if its full_name contains the separator and it is not a fork, or is a fork
\* owned by the user with stargazers_count >= 20 or forks_count >= 10; so a
\* fork owned by another party is always removed and a well-formed non-fork
\* repository of the user is always retained.
C14_ListingFilterRule ==
    lst.pc = "returned" =>
        LET user == Trim(lst.username)
            unique == DedupeById(lst.repos)
        IN  /\ lst.result =
                  SelectSeq(unique, LAMBDA r : KeptByListingRule(r, user))
            /\ \A i \in 1..Len(unique) :
                  LET r == unique[i]
                      returned == \E k \in 1..Len(lst.result) : lst.result[k] = r
                  IN  /\ (HasSeparator(r) /\ r.fork /\ ~IsOwnRepo(r, user))
                            => ~returned
                      /\ (HasSeparator(r) /\ ~r.fork /\ IsOwnRepo(r, user))
                            => returned

\* A listing that returned after duplicates by id were dropped, with an own
\* fork kept for its forks alone and an entry filtered out
C14_Witness ==
    /\ lst.pc = "returned"
    /\ Len(DedupeById(lst.repos)) < Len(lst.repos)
    /\ Len(lst.result) < Len(DedupeById(lst.repos))
    /\ \E k \in 1..Len(lst.result) :
          /\ lst.result[k].fork
          /\ NumberOrZero(lst.result[k].stargazers_count) < 20

----------------------------------------------------------------------------
(* fetchCommitCount: pages and failures *)

\* C15: at most 3 contributor pages are requested, one after the other in page
\* order, and once a page returned fewer than 100 entries and held the target
\* username no further page is requested.
C15_ContributorPagesBounded ==
    /\ Len(cc.log) <= CONTRIBUTOR_MAX_PAGES
    /\ \A i \in 1..Len(cc.log) : cc.log[i] = i
    /\ Len(cc.answers) <= Len(cc.log)
    /\ Len(cc.log) <= Len(cc.answers) + 1
    /\ \A i \in 1..Len(cc.answers) :
          ( /\ Ok(cc.answers[i].status)
            /\ cc.answers[i].hasUser
            /\ cc.answers[i].count < CONTRIBUTORS_PER_PAGE )
             => Len(cc.log) = i

\* A full first page, then a short second page that holds the user, and the
\* operation is over
C15_Witness ==
    /\ cc.pc = "done"
    /\ Len(cc.answers) = 2
    /\ cc.answers[1].count = CONTRIBUTORS_PER_PAGE
    /\ cc.answers[2].hasUser
    /\ cc.answers[2].count < CONTRIBUTORS_PER_PAGE
    /\ cc.answers[2].count > 0

\* C16: fetchCommitCount never throws, and whenever one of its page requests
\* fails (non-2xx response, network error, timeout abort or non-array body, on
\* any page) the result is exactly {total: 0, userContributions: 0}, never a
\* sum over the pages fetched before the failure.
C16_AnyFailureYieldsZero ==
    /\ cc.pc \in {"idle", "awaitResponse", "awaitJson", "done"}
    /\ (cc.pc = "done" /\ cc.failure # "none") => cc.result = Zero

\* C16 (amended): fetchCommitCount never throws; a network error, a timeout
\* abort or an unparsable body on any page yields {0, 0}; a non-2xx response
\* or a non-array body stops the pagination and yields the aggregate of the
\* pages fetched before it, which is {0, 0} when it happens on page 1.
C16_FailureYieldsZeroOrEarlierPages ==
    /\ cc.pc \in {"idle", "awaitResponse", "awaitJson", "done"}
    /\ (cc.pc = "done" /\ cc.failure \in {"network", "abort", "json"})
          => cc.result = Zero
    /\ (cc.pc = "done" /\ cc.failure \in {"status", "shape"})
          => /\ Len(cc.all) = (cc.failPage - 1) * CONTRIBUTORS_PER_PAGE
             /\ cc.result = Aggregate(cc.all, cc.username)
             /\ cc.failPage = 1 => cc.result = Zero
             /\ cc.failPage > 1 => cc.result.total > 0

\* A non-2xx answer on page 2 after a full first page
C16_Witness ==
    /\ cc.pc = "done"
    /\ cc.failure = "status"
    /\ cc.failPage = 2
    /\ cc.result.userContributions > 0

----------------------------------------------------------------------------
(* enrichRepoData: failures of one repository, and the second wave *)

\* full_name is missing or has no owner/name separator
Malformed(item) ==
    item.full_name = <<>> \/ Len(Split(item.full_name[1])) < 2

\* The record of a repository is the one its own answers give
OwnRecord(item, data) ==
    /\ data # <<>>
    /\ data[1].languages = item.languages
    /\ data[1].languageCount = Cardinality(item.languages)
    /\ item.requested = SecondWaveFiles(LangKeys(item.languages))
    /\ data[1].manifests \in {item.requested, <<>>}

\* C17: enrichRepoData never rejects because of one repository: a repository
\* whose enrichment raised an exception, or whose full_name is malformed, is
\* returned with enrichedData undefined, and every other repository of the
\* batch is returned with the record its own answers give.
C17_FailureStaysInItsRepository ==
    /\ enr.pc # "rejected"
    /\ enr.pc = "done" =>
          /\ Len(enr.result) = Len(enr.items)
          /\ \A i \in 1..Len(enr.items) :
                /\ enr.result[i].full_name = enr.items[i].full_name
                /\ IF enr.items[i].failed \/ Malformed(enr.items[i])
                   THEN enr.result[i].enrichedData = <<>>
                   ELSE OwnRecord(enr.items[i], enr.result[i].enrichedData)

\* A batch that returned with one repository failed in a wave and another one
\* enriched
C17_Witness ==
    /\ enr.pc = "done"
    /\ \E i, j \in 1..Len(enr.items) :
          /\ enr.items[i].failed
          /\ ~Malformed(enr.items[i])
          /\ enr.result[j].enrichedData # <<>>

\* The first wave of the repository has resolved
PastWave1(item) ==
    item.pc = "wave2" \/ (item.pc = "done" /\ item.enrichedData # <<>>)

Requested(item, path) == \E k \in 1..Len(item.requested) : item.requested[k] = path

\* The language is in the breakdown, whatever its letter case
HasLanguage(item, key) == \E l \in item.languages : ToLowerCase(l) = key

\* The manifests of the ecosystems other than Python and notebooks
OtherManifestsFollowLanguages(item) ==
    /\ Requested(item, "go.mod") <=> HasLanguage(item, KEY_GO)
    /\ Requested(item, "Cargo.toml") <=> HasLanguage(item, KEY_RUST)
    /\ Requested(item, "pom.xml") <=> HasLanguage(item, KEY_JAVA)
    /\ Requested(item, "build.gradle") <=> HasLanguage(item, KEY_JAVA)
    /\ Requested(item, "Gemfile") <=> HasLanguage(item, KEY_RUBY)
    /\ Requested(item, "CMakeLists.txt") <=>
          \/ HasLanguage(item, KEY_C)
          \/ HasLanguage(item, KEY_CPP)
          \/ HasLanguage(item, KEY_CMAKE)
    /\ item.languages = {} => item.requested = <<>>

PythonOrJupyter(item) ==
    HasLanguage(item, KEY_PYTHON) \/ HasLanguage(item, KEY_JUPYTER)

\* C18: a second-wave fetch is issued if and only if its language is in the
\* breakdown: go.mod iff Go, Cargo.toml iff Rust, pom.xml and build.gradle iff
\* Java, Gemfile iff Ruby, CMakeLists.txt iff C, C++ or CMake, and setup.py,
\* pyproject.toml, main.ipynb and notebook.ipynb iff Python or Jupyter
\* Notebook; with an empty breakdown no second-wave request is issued.
C18_SecondWaveNotebooksForPython ==
    \A i \in 1..Len(enr.items) :
        PastWave1(enr.items[i]) =>
            /\ OtherManifestsFollowLanguages(enr.items[i])
            /\ \A path \in {"setup.py", "pyproject.toml", "main.ipynb",
                             "notebook.ipynb"} :
                  Requested(enr.items[i], path) <=> PythonOrJupyter(enr.items[i])

\* C18 (amended): as above, except that main.ipynb and notebook.ipynb are
\* requested if and only if Jupyter Notebook is in the breakdown; Python alone
\* brings setup.py and pyproject.toml only.
C18_SecondWaveNotebooksForJupyter ==
    \A i \in 1..Len(enr.items) :
        PastWave1(enr.items[i]) =>
            /\ OtherManifestsFollowLanguages(enr.items[i])
            /\ \A path \in {"setup.py", "pyproject.toml"} :
                  Requested(enr.items[i], path) <=> PythonOrJupyter(enr.items[i])
            /\ \A path \in {"main.ipynb", "notebook.ipynb"} :
                  Requested(enr.items[i], path)
                      <=> HasLanguage(enr.items[i], KEY_JUPYTER)

\* A repository whose breakdown holds Python and not Jupyter Notebook, after
\* its second wave was issued
C18_Witness ==
    \E i \in 1..Len(enr.items) :
        /\ PastWave1(enr.items[i])
        /\ HasLanguage(enr.items[i], KEY_PYTHON)
        /\ ~HasLanguage(enr.items[i], KEY_JUPYTER)
        /\ Requested(enr.items[i], "setup.py")

----------------------------------------------------------------------------
(* Timeouts *)

\* One call of fetchFileContent in which a timer that is armed does fire; the
\* upstream owes no answer
SpecFetchFair == InitFetch /\ [][NextFetch]_vars /\ WF_vars(TimeoutFires)

\* C19: a request is guarded by its own timeout: when the upstream stops
\* responding, before the response headers or while the body is being read,
\* the operation still eventually completes, and the expiry yields the absent
\* result instead of an error.
C19_StalledRequestCompletes ==
    /\ (fpc \in {"awaitFetch", "awaitJson"}) ~> (fpc = "done")
    /\ [](freq.upstream = "abort" => fresult = ResultNull)

----------------------------------------------------------------------------
(* Caller-contract failures *)

Called(name) == \E k \in 1..Len(app.calls) : app.calls[k] = name

\* C20: validateToken called with a missing or empty credential, and
\* fetchAllRepos called with a missing or empty credential or an empty
\* username, raise an error without issuing any network request; and when the
\* listing returns zero repositories the pipeline ends in the ERROR state
\* without calling enrichment, scoring or the resume generation.
C20_ContractViolationsSurface ==
    /\ (Called("validateToken") /\ app.token = <<>>) =>
          /\ app.requests = 0
          /\ app.state = "ERROR"
          /\ app.calls = <<"validateToken">>
    /\ (lst.pc # "idle" /\ (lst.token = <<>> \/ lst.username = <<>>)) =>
          /\ lst.pc = "threw"
          /\ lst.log = <<>>
    /\ (Called("fetchAllRepos") /\ app.login = <<>>) =>
          /\ app.state = "ERROR"
          /\ app.listed = <<>>
    /\ app.listed = <<0>> =>
          /\ app.state = "ERROR"
          /\ ~app.isGenerating
          /\ ~Called("enrichRepoData")
          /\ ~Called("scoreAndSortRepos")
          /\ ~Called("generateResumeFromGithub")

\* A direct call of fetchAllRepos with an empty credential has thrown, and a
\* pipeline whose listing returned no repository has ended
C20_Witness ==
    /\ lst.pc = "threw"
    /\ lst.token = <<>>
    /\ app.listed = <<0>>
    /\ app.state = "ERROR"
    /\ app.requests = 1

----------------------------------------------------------------------------
(* Properties of the contribution gate and of the score range *)

WellFormed(r) == Len(Split(r.full_name)) >= 2

\* ratio < n/d for ratio = min(userCommits / commitCount, 1), where the ratio
\* is 1 when commitCount = 0 and userCommits > 0
StatedRatioBelow(u, c, n, d) == c > 0 /\ u < c /\ u * d < n * c

\* the gating table in the words of the specification, first match first
StatedGate(owned, fork, u, c) ==
    CASE ~owned /\ u = 0 -> SENTINEL
      [] ~owned /\ u < 3 -> -300
      [] ~owned /\ (u < 10 \/ StatedRatioBelow(u, c, 10, 100)) -> -200
      [] ~owned /\ (u < 20 \/ StatedRatioBelow(u, c, 25, 100)) -> -100
      [] ~owned -> 0
      [] owned /\ fork /\ u = 0 -> SENTINEL
      [] owned /\ fork /\ u < 10 -> -250
      [] owned /\ fork /\ u < 30 -> -150
      [] OTHER -> 0

GateMatchesTable(r) ==
    LET u        == r.enrichedData[1].userCommitCount
        c        == r.enrichedData[1].commitCount
        expected == StatedGate(Owned(r), r.fork, u, c)
    IN  IF expected = SENTINEL
        THEN ScoreOf(r) = SENTINEL /\ ~InOutput(r)
        ELSE /\ AppliedGate(r) = expected
             /\ \A j \in DOMAIN out :
                   out[j].id = r.id =>
                       out[j].calculatedScore =
                           expected + SignalDeltas(r, r.enrichedData[1],
                                                   Owned(r), outNow)

\* C21 as stated: every repository with an enrichment record gets exactly
\* the outcome of the gating table (sentinel, -300, -200, -100, -250, -150
\* or 0), the first that matches, with the ratio capped at 1 and taken as 1
\* when commitCount = 0 and userCommits > 0.
C21_GateTableForEveryEnriched ==
    calls >= 1 =>
        \A i \in DOMAIN repos :
            Enriched(repos[i]) => GateMatchesTable(repos[i])

\* C21, amended: every repository with an enrichment record whose full_name
\* has an owner part (contains "/") gets exactly the outcome of the gating
\* table; a full_name without "/" is scored 0 before the gate is reached.
C21_GateTableForWellFormed ==
    calls >= 1 =>
        \A i \in DOMAIN repos :
            /\ (Enriched(repos[i]) /\ WellFormed(repos[i]))
                   => GateMatchesTable(repos[i])
            /\ ~WellFormed(repos[i]) => ScoreOf(repos[i]) = 0

\* a non-owned repository with more attributed commits than total commits,
\* and with a total of 0, passes the gate without penalty
C21_Witness ==
    /\ calls >= 1
    /\ \E j \in DOMAIN out :
          /\ out[j].full_name = FN_ORG
          /\ Enriched(out[j])
          /\ out[j].enrichedData[1].userCommitCount = 25
          /\ out[j].enrichedData[1].commitCount = 0
          /\ out[j].calculatedScore =
                 SignalDeltas(out[j], out[j].enrichedData[1], FALSE, outNow)

\* the signed sum of the rule deltas of an enriched repository that passed
\* the gate
SignedSum(r) ==
    StatedGate(Owned(r), r.fork, r.enrichedData[1].userCommitCount,
               r.enrichedData[1].commitCount)
  + SignalDeltas(r, r.enrichedData[1], Owned(r), outNow)

PassedGate(r) ==
    StatedGate(Owned(r), r.fork, r.enrichedData[1].userCommitCount,
               r.enrichedData[1].commitCount) # SENTINEL

\* C22: a repository scored on the fallback path has a score >= 0; a
\* repository scored on the enrichment path keeps the signed sum of its rule
\* deltas, so a negative sum is its calculatedScore (and removes it from the
\* output) instead of being clamped to 0.
C22_FallbackClampedEnrichedSigned ==
    calls >= 1 =>
        \A i \in DOMAIN repos :
            WellFormed(repos[i]) =>
                IF ~Enriched(repos[i])
                THEN ScoreOf(repos[i]) >= 0
                ELSE PassedGate(repos[i]) =>
                        /\ ScoreOf(repos[i]) = SignedSum(repos[i])
                        /\ SignedSum(repos[i]) < 0 => ~InOutput(repos[i])
                        /\ \A j \in DOMAIN out :
                              out[j].id = repos[i].id =>
                                  out[j].calculatedScore = SignedSum(repos[i])

\* an owned repository whose deltas sum to -10 keeps -10 and is dropped
C22_Witness ==
    /\ calls >= 1
    /\ out = <<>>
    /\ \E i \in DOMAIN repos :
          /\ Owned(repos[i])
          /\ ~repos[i].fork
          /\ Enriched(repos[i])
          /\ ScoreOf(repos[i]) = -10

\* the same repository with no star and no fork
Unstarred(r) == [r EXCEPT !.stargazers_count = 0, !.forks_count = 0]

\* C23: on the enrichment path the score of a private repository does not
\* depend on stargazers_count and forks_count: it is the score of the same
\* repository with no star and no fork, so any two private repositories that
\* differ only in these two counts get the same calculatedScore and the same
\* keep/drop decision.
C23_PrivateScoreIgnoresStarsAndForks ==
    calls >= 1 =>
        \A i \in DOMAIN repos :
            (Enriched(repos[i]) /\ repos[i].private = TRUE) =>
                LET base == CalculatedScore(Unstarred(repos[i]),
                                            UsernameLower, outNow)
                IN  /\ ScoreOf(repos[i]) = base
                    /\ InOutput(repos[i])
                           <=> KeepRepo(WithScore(Unstarred(repos[i]), base),
                                        UsernameLower)
                    /\ \A j \in DOMAIN out :
                          out[j].id = repos[i].id =>
                              out[j].calculatedScore = base

\* a private enriched repository with 101 stars and 21 forks is in the output
\* with the score of its star-less twin
C23_Witness ==
    /\ calls >= 1
    /\ \E j \in DOMAIN out :
          /\ out[j].private = TRUE
          /\ Enriched(out[j])
          /\ out[j].stargazers_count = 101
          /\ out[j].forks_count = 21
          /\ out[j].calculatedScore =
                 CalculatedScore(Unstarred(repos[1]), UsernameLower, outNow)

----------------------------------------------------------------------------
(* Properties of the enrichment prefix *)

Min(a, b) == IF a < b THEN a ELSE b

\* the first k repositories of the input are the ones being processed, in
\* input order, and the result (once there) has one entry for each
ProcessesPrefix(k) ==
    /\ Len(enr.items) = k
    /\ \A i \in 1..k : enr.items[i].full_name = enr.input[i].full_name
    /\ enr.pc = "done" =>
          /\ Len(enr.result) = k
          /\ \A i \in 1..k : enr.result[i].full_name = enr.input[i].full_name

\* C24 as stated: enrichRepoData processes the first min(limit, n)
\* repositories of its n inputs, with limit = 20 when the caller omits it,
\* and returns one entry for each of them in input order.
C24_PrefixWithDefaultTwenty ==
    enr.pc # "idle" =>
        ProcessesPrefix(Min(IF enr.limit = <<>> THEN 20 ELSE enr.limit[1],
                            Len(enr.input)))

\* C24, amended: enrichRepoData processes the first min(limit, n)
\* repositories of its n inputs, with limit = 10 when the caller omits it
\* (handleStart passes 20 itself), makes requests for none of the others, and
\* returns one entry for each processed repository in input order.
C24_PrefixWithDefaultTen ==
    enr.pc # "idle" =>
        ProcessesPrefix(Min(IF enr.limit = <<>> THEN ENRICH_DEFAULT_LIMIT
                            ELSE enr.limit[1],
                            Len(enr.input)))

\* the long batch without a limit: ten entries come back, and the repository
\* at position 11 was never asked about
C24_Witness ==
    /\ enr.pc = "done"
    /\ enr.limit = <<>>
    /\ enr.input = LongBatch
    /\ Len(enr.result) = ENRICH_DEFAULT_LIMIT
    /\ enr.result[1].enrichedData # <<>>

----------------------------------------------------------------------------
(* Properties of the ownership test *)

\* two usernames that differ only in letter case or in leading/trailing
\* whitespace
SameUser(u1, u2) == Trim(ToLowerCase(u1)) = Trim(ToLowerCase(u2))

\* C25: for any two usernames that differ only in letter case or in
\* leading/trailing whitespace, every repository gets the same ownership
\* decision and the same score, and the same repositories are kept.
C25_UsernameCaseAndPaddingIrrelevant ==
    calls >= 1 =>
        \A other \in Usernames :
            SameUser(username, other) =>
                /\ \A i \in DOMAIN repos :
                      /\ Owned(repos[i])
                            = IsOwner(repos[i].full_name, ToLowerCase(other))
                      /\ ScoreOf(repos[i])
                            = CalculatedScore(repos[i], ToLowerCase(other),
                                              outNow)
                /\ out = scoreAndSortRepos(repos, other, outNow)

----------------------------------------------------------------------------
(* The range of the scores *)

ZeroCommitGated(r) ==
    /\ WellFormed(r)
    /\ r.enrichedData[1].userCommitCount = 0
    /\ ~Owned(r) \/ r.fork

\* C27: every score of the enrichment path is the sentinel -9999 or lies in
\* [-320, 535]; the repositories with score < -1000 are exactly those given
\* the sentinel, which are the non-owned repositories and the owned forks
\* with zero attributed commits, and none of them is in the output.
C27_ScoreRangeAndSentinel ==
    calls >= 1 =>
        \A i \in DOMAIN repos :
            Enriched(repos[i]) =>
                LET s == ScoreOf(repos[i])
                IN  /\ s = SENTINEL \/ (-320 <= s /\ s <= 535)
                    /\ s < -1000 <=> s = SENTINEL
                    /\ s = SENTINEL <=> ZeroCommitGated(repos[i])
                    /\ s = SENTINEL => ~InOutput(repos[i])
                    /\ \A j \in DOMAIN out :
                          out[j].id = repos[i].id =>
                              /\ out[j].calculatedScore = s
                              /\ 0 <= s /\ s <= 535

\* the upper end of the range is reached
C27_Witness ==
    /\ calls >= 1
    /\ \E j \in DOMAIN out :
          /\ Enriched(out[j])
          /\ out[j].calculatedScore = 535

\* and so is the lower end
C27_LowestScoreReached ==
    /\ calls >= 1
    /\ \E i \in DOMAIN repos : Enriched(repos[i]) /\ ScoreOf(repos[i]) = -320

----------------------------------------------------------------------------
(* Properties of the contributor aggregate *)

\* C28: whatever pages of contributors (with contributions >= 0) the
\* upstream returns and wherever the paging stops, the result of
\* fetchCommitCount has userContributions <= total.
C28_UserContributionsWithinTotal ==
    cc.pc = "done" =>
        /\ cc.result.userContributions <= cc.result.total
        /\ cc.result.userContributions >= 0

\* the user is the only contributor returned: both figures are equal
C28_Witness ==
    /\ cc.pc = "done"
    /\ cc.result.userContributions = 5
    /\ cc.result.total = 5
    /\ cc.page = 1

----------------------------------------------------------------------------
(* Forks without enrichment record *)

----------------------------------------------------------------------------
(* The double-submission guard of handleStart *)

\* a step in which an invocation of handleStart returned at the guard
IgnoredInvocation == app'.ignored # app.ignored

GuardMatchesPipeline ==
    /\ app.inFlight \in {0, 1}
    /\ app.isGenerating <=> app.inFlight = 1
    /\ app.isGenerating <=> app.pc # "idle"

\* C30: at most one handleStart is in flight; an invocation made while
\* another is running changes nothing (no request, no state change, the
\* running pipeline goes on where it was); and whenever the pipeline has
\* left, with READY or with ERROR, the guard is free again.
C30_SinglePipelineInFlight ==
    /\ [](GuardMatchesPipeline)
    /\ [][IgnoredInvocation =>
             /\ app.isGenerating
             /\ app' = [app EXCEPT !.ignored = @ + 1]]_vars
    /\ [][app.isGenerating => app'.runs = app.runs]_vars

\* a second submission was ignored while the first pipeline ran, the first
\* pipeline ended in ERROR, and a later submission ran to READY
C30_Witness ==
    /\ app.ignored >= 1
    /\ app.runs = 2
    /\ app.state = "READY"
    /\ ~app.isGenerating

----------------------------------------------------------------------------
(* The joins of one enrichment callback *)

Settled(status) == status \in {"value", "absent"}

\* C26: the second-wave requests and the parsing start only when every
\* first-wave fetch has settled; a sub-fetch that fails or times out, in
\* whatever order the fetches settle, does not end the join: the callback
\* ends with an enrichment record in which each sub-field is populated
\* exactly when its own fetch succeeded.
C26_JoinWaitsAndSurvivesFailures ==
    /\ wave.pendingAtSecond = {}
    /\ wave.pendingAtParse = {}
    /\ wave.pc \in {"wave2", "done"} =>
          \A f \in FirstWaveFetches : Settled(wave.first[f])
    /\ wave.pc = "wave1" =>
          /\ PendingFetches(wave.first) # {}
          /\ DOMAIN wave.second = {}
          /\ wave.enrichedData = <<>>
    /\ wave.pc = "done" =>
          /\ ~wave.failed
          /\ wave.enrichedData # <<>>
          /\ \A f \in DOMAIN wave.second : Settled(wave.second[f])
          /\ LET data == wave.enrichedData[1]
             IN  /\ data.packageJson <=> wave.first["package.json"] = "value"
                 /\ data.pythonDependencies
                       <=> wave.first["requirements.txt"] = "value"
                 /\ data.readme <=> \/ wave.first["README.md"] = "value"
                                    \/ wave.first["readme.md"] = "value"
                 /\ data.commitCount <=> wave.first["commits"] = "value"
                 /\ data.languages <=> wave.first["languages"] = "value"

\* package.json failed and README.md timed out, and the record still has the
\* commit counts, the languages and the go.mod dependencies
C26_Witness ==
    /\ wave.pc = "done"
    /\ wave.first["package.json"] = "absent"
    /\ wave.first["README.md"] = "absent"
    /\ wave.first["readme.md"] = "absent"
    /\ wave.enrichedData # <<>>
    /\ wave.enrichedData[1].commitCount
    /\ wave.enrichedData[1].languages
    /\ wave.enrichedData[1].goDeps
    /\ ~wave.enrichedData[1].readme

====
